---- MODULE Spec2Model ----
(***************************************************************************)
(* A model of bf-runner: the program builder (Item tree, parsing and       *)
(* lowering), the bracket-linking pass Program::build, and the             *)
(* interpreter Interpreter::run, as a state machine.                       *)
(*                                                                         *)
(* Indices are 0-based as in the source: the action at index i of the      *)
(* vector `instructions` is instructions[i + 1], tape cell p is            *)
(* tape[p + 1].                                                            *)
(***************************************************************************)
EXTENDS Integers, Sequences, FiniteSets, TLC

VARIABLES
    pc,                   \* where the pipeline main() drives is: see Init
    text,                 \* the program text handed to Item::parse
    item,                 \* the Item tree (parsed, or made by constructors)
    instructions,         \* Program.instructions: the lowered action list
    pairs,                \* Program.pairs: index -> index
    rendered,             \* the String last returned by as_text_clean
    error,                \* the error returned, or the panic message
    input,                \* the bytes of the input source
    inpos,                \* the read cursor of the input source
    stdout,               \* everything written to standard output, in order
    instruction_pointer,  \* Interpreter.instruction_pointer
    tape_pointer,         \* Interpreter.tape_pointer
    tape,                 \* Interpreter.tape
    printing_level,       \* Interpreter.printing_level (Option<u8>)
    markers,              \* Interpreter.markers: name -> tape index
    executed              \* history: how many Input actions have read so far

vars == <<pc, text, item, instructions, pairs, rendered, error, input, inpos,
          stdout, instruction_pointer, tape_pointer, tape, printing_level,
          markers, executed>>

----------------------------------------------------------------------------
(* Bounds of the model. *)

\* Every text over the eight primitive characters up to this length is tried.
MaxTextLen == 3
\* Every input over InputBytes up to this length is tried.
MaxInputLen == 1
\* The tape is not grown past this many cells.
MaxTape == 90
\* No more than this many entries are written to standard output.
MaxOut == 6
\* No more than this many Input actions are dispatched in one run.
MaxExecuted == 200

----------------------------------------------------------------------------
(* Machine integers. *)

\* u8: the modulus of a tape cell.
U8 == 256
\* usize::MAX. The model checker's integers are 32 bits wide, so usize is
\* modelled 30 bits wide: far above every index the model reaches, as
\* 2^64 - 1 is far above every index a run reaches.
USIZE_MAX == 1073741823

\* Mutant: saturating_add in place of wrapping_add.
wrapping_add_saturating(x, y) == IF x + y >= U8 THEN U8 - 1 ELSE x + y

wrapping_add(x, y) == (x + y) % U8
wrapping_sub(x, y) == (x - y + U8) % U8

\* Option<usize> / Option<u8>: None is a value outside the naturals.
None == -1

\* Mutant: saturating_sub in place of checked_sub.
checked_sub_saturating(x, y) == IF x - y < 0 THEN 0 ELSE x - y

checked_sub(x, y) == IF x - y < 0 THEN None ELSE x - y
checked_add(x, y) == IF x + y > USIZE_MAX THEN None ELSE x + y

\* isize::unsigned_abs
unsigned_abs(offset) == IF offset >= 0 THEN offset ELSE -offset

----------------------------------------------------------------------------
(* Instruction, and its two character mappings. *)

Instruction_variants ==
    {"Left", "Right", "Inc", "Dec", "Input", "Output", "Start", "End"}

\* Mutant: the characters of Left and Right are exchanged.
as_char_exchanged(i) ==
    CASE i = "Left"   -> ">"
      [] i = "Right"  -> "<"
      [] i = "Inc"    -> "+"
      [] i = "Dec"    -> "-"
      [] i = "Input"  -> ","
      [] i = "Output" -> "."
      [] i = "Start"  -> "["
      [] i = "End"    -> "]"

as_char(i) ==
    CASE i = "Left"   -> "<"
      [] i = "Right"  -> ">"
      [] i = "Inc"    -> "+"
      [] i = "Dec"    -> "-"
      [] i = "Input"  -> ","
      [] i = "Output" -> "."
      [] i = "Start"  -> "["
      [] i = "End"    -> "]"

NoInstruction == "None"

from_byte(b) ==
    CASE b = "<" -> "Left"
      [] b = ">" -> "Right"
      [] b = "+" -> "Inc"
      [] b = "-" -> "Dec"
      [] b = "," -> "Input"
      [] b = "." -> "Output"
      [] b = "[" -> "Start"
      [] b = "]" -> "End"
      [] OTHER   -> NoInstruction

----------------------------------------------------------------------------
(* Item: the program tree. *)

Item_Sequence(xs) == [kind |-> "Sequence", items |-> xs]
Item_Direct(i) == [kind |-> "Direct", ins |-> i]
Item_Loop(body, change_indent) ==
    [kind |-> "Loop", body |-> body, change_indent |-> change_indent]
Item_Repeat(x, n) == [kind |-> "Repeat", item |-> x, n |-> n]
Item_Comment(s, level) == [kind |-> "Comment", text |-> s, level |-> level]
Item_EndComment == [kind |-> "EndComment"]
Item_AddMarker(name) == [kind |-> "AddMarker", name |-> name]
Item_RemoveMarker(name) == [kind |-> "RemoveMarker", name |-> name]
Item_AssertPosition(cell, message) ==
    [kind |-> "AssertPosition", desired |-> cell, why |-> message]
Item_AssertRelativePosition(name, offset, comment) ==
    [kind |-> "AssertRelativePosition", name |-> name, offset |-> offset,
     comment |-> comment]
NoItem == [kind |-> "NoItem"]

\* Loop::new(body) and Loop::new(body).indent()
Loop_new(body) == Item_Loop(body, FALSE)
Loop_indent(l) == [l EXCEPT !.change_indent = TRUE]

Item_repeat(x, n) == Item_Repeat(x, n)

ParseOk(it) == [ok |-> TRUE, item |-> it, error |-> ""]
ParseErr(b) == [ok |-> FALSE, item |-> NoItem, error |-> "unknown byte", byte |-> b]

\* Mutant of Item_parse: a byte that is no instruction is skipped.
Item_parse_skipping(s) ==
    LET known(b) == from_byte(b) # NoInstruction
        t == SelectSeq(s, known)
    IN  ParseOk(Item_Sequence([k \in 1..Len(t) |-> Item_Direct(from_byte(t[k]))]))

\* Item::parse: one Direct per byte, or the error of the first unknown byte.
Item_parse(s) ==
    LET bad == {k \in 1..Len(s) : from_byte(s[k]) = NoInstruction} IN
    IF bad # {}
    THEN ParseErr(s[CHOOSE k \in bad : \A j \in bad : k <= j])
    ELSE ParseOk(Item_Sequence([k \in 1..Len(s) |-> Item_Direct(from_byte(s[k]))]))

----------------------------------------------------------------------------
(* The builder helpers and the numeric macros of build::num. *)

offset_to_insns(offset) ==
    IF offset >= 0
    THEN Item_repeat(Item_Direct("Right"), unsigned_abs(offset))
    ELSE Item_repeat(Item_Direct("Left"), unsigned_abs(offset))

zero_cell == Loop_new(<<Item_Direct("Dec")>>)

\* The implementations of NumericOperation: NAME, ZERO_CHECK_FIRST, WIDTH,
\* operation() and zero_reset().
\* Mutant of ByteAdd: the zero check comes before the increment.
ByteAdd_checking_first(N) ==
    [NAME |-> "add", ZERO_CHECK_FIRST |-> TRUE, WIDTH |-> N,
     operation |-> Item_Direct("Inc"), zero_reset |-> Item_Sequence(<<>>)]

\* Mutant of ByteAdd: a digit that carried is reset as a decimal one.
ByteAdd_resetting(N) ==
    [NAME |-> "add", ZERO_CHECK_FIRST |-> FALSE, WIDTH |-> N,
     operation |-> Item_Direct("Inc"),
     zero_reset |-> Item_Sequence([k \in 1..10 |-> Item_Direct("Dec")])]

ByteAdd(N) ==
    [NAME |-> "add", ZERO_CHECK_FIRST |-> FALSE, WIDTH |-> N,
     operation |-> Item_Direct("Inc"), zero_reset |-> Item_Sequence(<<>>)]

\* Mutant of ByteSub: the zero check comes after the decrement.
ByteSub_checking_after(N) ==
    [NAME |-> "sub", ZERO_CHECK_FIRST |-> FALSE, WIDTH |-> N,
     operation |-> Item_Direct("Dec"), zero_reset |-> Item_Sequence(<<>>)]

ByteSub(N) ==
    [NAME |-> "sub", ZERO_CHECK_FIRST |-> TRUE, WIDTH |-> N,
     operation |-> Item_Direct("Dec"), zero_reset |-> Item_Sequence(<<>>)]

\* Mutant of DecimalAdd: the reset takes nine off.
DecimalAdd_resetting_to_one(N) ==
    [NAME |-> "decimal add", ZERO_CHECK_FIRST |-> FALSE, WIDTH |-> N,
     operation |-> Item_Direct("Inc"),
     zero_reset |-> Item_Sequence([k \in 1..9 |-> Item_Direct("Dec")])]

DecimalAdd(N) ==
    [NAME |-> "decimal add", ZERO_CHECK_FIRST |-> FALSE, WIDTH |-> N,
     operation |-> Item_Direct("Inc"),
     zero_reset |-> Item_Sequence([k \in 1..10 |-> Item_Direct("Dec")])]

\* Mutant of DecimalSub: the zero check comes after the decrement.
DecimalSub_checking_after(N) ==
    [NAME |-> "decimal sub", ZERO_CHECK_FIRST |-> FALSE, WIDTH |-> N,
     operation |-> Item_Direct("Dec"),
     zero_reset |-> Item_Sequence([k \in 1..10 |-> Item_Direct("Inc")])]

\* Mutant of DecimalSub: the reset puts 9 on the digit that borrowed.
DecimalSub_resetting_to_nine(N) ==
    [NAME |-> "decimal sub", ZERO_CHECK_FIRST |-> TRUE, WIDTH |-> N,
     operation |-> Item_Direct("Dec"),
     zero_reset |-> Item_Sequence([k \in 1..9 |-> Item_Direct("Inc")])]

DecimalSub(N) ==
    [NAME |-> "decimal sub", ZERO_CHECK_FIRST |-> TRUE, WIDTH |-> N,
     operation |-> Item_Direct("Dec"),
     zero_reset |-> Item_Sequence([k \in 1..10 |-> Item_Direct("Inc")])]

\* format!("operation {} level {}", N::NAME, N::WIDTH - space)
level_marker_name(N, space) ==
    "operation " \o N.NAME \o " level " \o ToString(N.WIDTH - space)

\* Mutant of operate_level_else: one Right short after the reset.
operate_level_else_short(N, space, scratch_offset, recursion) ==
    IF space # 0
    THEN <<offset_to_insns(-scratch_offset),
           Item_Direct("Left"),
           Item_AssertRelativePosition(level_marker_name(N, space), -1,
                                       "before recursion"),
           recursion,
           Item_AssertRelativePosition(level_marker_name(N, space), -1,
                                       "after recursion"),
           Item_Direct("Right"),
           N.zero_reset,
           offset_to_insns(scratch_offset)>>
    ELSE <<Item_AssertPosition(USIZE_MAX, "arithmetic overflow")>>

\* Mutant of operate_level_else: the digit is reset before the recursion
\* returns to it, one cell to the left.
operate_level_else_early_reset(N, space, scratch_offset, recursion) ==
    IF space # 0
    THEN <<offset_to_insns(-scratch_offset),
           Item_Direct("Left"),
           Item_AssertRelativePosition(level_marker_name(N, space), -1,
                                       "before recursion"),
           recursion,
           Item_AssertRelativePosition(level_marker_name(N, space), -1,
                                       "after recursion"),
           N.zero_reset,
           Item_Direct("Right"),
           Item_Direct("Right"),
           offset_to_insns(scratch_offset)>>
    ELSE <<Item_AssertPosition(USIZE_MAX, "arithmetic overflow")>>

\* Mutant of operate_level_else: the body ends on the digit it has reset.
operate_level_else_on_digit(N, space, scratch_offset, recursion) ==
    IF space # 0
    THEN <<offset_to_insns(-scratch_offset),
           Item_Direct("Left"),
           Item_AssertRelativePosition(level_marker_name(N, space), -1,
                                       "before recursion"),
           recursion,
           Item_AssertRelativePosition(level_marker_name(N, space), -1,
                                       "after recursion"),
           Item_Direct("Right"),
           N.zero_reset>>
    ELSE <<Item_AssertPosition(USIZE_MAX, "arithmetic overflow")>>

\* The body of the second loop of the zero check: the recursion into the next
\* more significant digit, or the depth guard when there is none.
operate_level_else(N, space, scratch_offset, recursion) ==
    IF space # 0
    THEN <<offset_to_insns(-scratch_offset),
           Item_Direct("Left"),
           Item_AssertRelativePosition(level_marker_name(N, space), -1,
                                       "before recursion"),
           recursion,
           Item_AssertRelativePosition(level_marker_name(N, space), -1,
                                       "after recursion"),
           Item_Direct("Right"),
           N.zero_reset,
           Item_Direct("Right"),
           offset_to_insns(scratch_offset)>>
    ELSE <<Item_AssertPosition(USIZE_MAX, "arithmetic overflow")>>

RECURSIVE operate_level(_, _, _)
operate_level(N, space, scratch_offset) ==
    LET marker_name == level_marker_name(N, space)
        prep == Item_Sequence(<<offset_to_insns(scratch_offset),
                                zero_cell,
                                Item_Direct("Inc"),
                                offset_to_insns(-scratch_offset)>>)
        recursion == IF space # 0
                     THEN operate_level(N, space - 1, scratch_offset + 1)
                     ELSE NoItem
        zero_check ==
            Item_Sequence(<<
                Loop_indent(Loop_new(<<offset_to_insns(scratch_offset),
                                       Item_Direct("Dec"),
                                       offset_to_insns(-scratch_offset),
                                       Item_Direct("Right")>>)),
                offset_to_insns(scratch_offset),
                Loop_indent(Loop_new(
                    operate_level_else(N, space, scratch_offset, recursion))),
                offset_to_insns(-scratch_offset - 1)>>)
        comment == Item_Comment(N.NAME \o " {depth="
                                   \o ToString(N.WIDTH - space) \o "/"
                                   \o ToString(N.WIDTH) \o "}", 10)
        after(what) == Item_AssertRelativePosition(marker_name, 0, what)
    IN  \* (The test is there only to have the inner level built first, which
        \* keeps the evaluation shallow: it is never true.)
        IF space # 0 /\ recursion = NoItem THEN NoItem
        ELSE Item_Sequence(
           IF N.ZERO_CHECK_FIRST
           THEN <<comment, Item_AddMarker(marker_name), prep,
                  after("after prep"), zero_check, after("after zero check"),
                  N.operation, after("after operation"), after("after level"),
                  Item_RemoveMarker(marker_name)>>
           ELSE <<comment, Item_AddMarker(marker_name), prep,
                  after("after prep"), N.operation, after("after operation"),
                  zero_check, after("after zero check"), after("after level"),
                  Item_RemoveMarker(marker_name)>>)

\* Mutant of operate: its marker is left in the map.
operate_leaving_marker(N, scratch_offset) ==
    LET marker_name == "operation " \o N.NAME IN
    Item_Sequence(<<Item_AddMarker(marker_name),
                    offset_to_insns(scratch_offset),
                    zero_cell,
                    Item_Direct("Right"),
                    zero_cell,
                    Item_Direct("Left"),
                    offset_to_insns(-scratch_offset),
                    operate_level(N, N.WIDTH - 1, scratch_offset),
                    Item_AssertRelativePosition(marker_name, 0,
                                                "after total operation")>>)

\* operate::<N>(scratch_offset)
operate(N, scratch_offset) ==
    LET marker_name == "operation " \o N.NAME IN
    Item_Sequence(<<Item_AddMarker(marker_name),
                    offset_to_insns(scratch_offset),
                    zero_cell,
                    Item_Direct("Right"),
                    zero_cell,
                    Item_Direct("Left"),
                    offset_to_insns(-scratch_offset),
                    operate_level(N, N.WIDTH - 1, scratch_offset),
                    Item_AssertRelativePosition(marker_name, 0,
                                                "after total operation"),
                    Item_RemoveMarker(marker_name)>>)

----------------------------------------------------------------------------
(* The builder helpers of build.rs and of the client (main.rs). *)

\* Item::comment
Item_comment(it, comment, level) ==
    Item_Sequence(<<Item_Comment(comment, level), it, Item_EndComment>>)

offset_from(start, target) ==
    IF target >= start THEN target - start ELSE -(start - target)

\* Mutant of delta_of: the last offset alone is taken for the way back.
delta_of_last(offsets) ==
    IF offsets = <<>> THEN 0 ELSE offsets[Len(offsets)]

\* The sum of a sequence of offsets: `delta` at the end of drain's for loop.
RECURSIVE delta_of(_)
delta_of(offsets) ==
    IF offsets = <<>> THEN 0 ELSE Head(offsets) + delta_of(Tail(offsets))

\* What drain's for loop pushes for one offset: the move and the change.
drain_visit(offset, add) ==
    <<Item_Repeat(Item_Direct(IF offset >= 0 THEN "Right" ELSE "Left"),
                  unsigned_abs(offset)),
      Item_Direct(IF add THEN "Inc" ELSE "Dec")>>

RECURSIVE drain_visits(_, _)
drain_visits(offsets, add) ==
    IF offsets = <<>> THEN <<>>
    ELSE drain_visit(Head(offsets), add) \o drain_visits(Tail(offsets), add)

\* Mutant of drain: the targets are increased whatever `add` says.
drain_always_adding(offsets, add) ==
    LET delta == delta_of(offsets) IN
    Loop_new(<<Item_Direct("Dec")>> \o drain_visits(offsets, TRUE)
             \o <<Item_Repeat(Item_Direct(IF delta >= 0 THEN "Left" ELSE "Right"),
                              unsigned_abs(delta))>>)

\* Mutant of drain: after the loop, a move onto the last target visited.
drain_leaving(offsets, add) ==
    LET delta == delta_of(offsets) IN
    Item_Sequence(<<
        Loop_new(<<Item_Direct("Dec")>> \o drain_visits(offsets, add)
                 \o <<Item_Repeat(Item_Direct(IF delta >= 0 THEN "Left" ELSE "Right"),
                                  unsigned_abs(delta))>>),
        offset_to_insns(delta)>>)

drain(offsets, add) ==
    LET delta == delta_of(offsets) IN
    Loop_new(<<Item_Direct("Dec")>> \o drain_visits(offsets, add)
             \o <<Item_Repeat(Item_Direct(IF delta >= 0 THEN "Left" ELSE "Right"),
                              unsigned_abs(delta))>>)

\* Mutant of find_non_zero_cell_right: the closing move is left out.
find_non_zero_cell_right_short ==
    Item_parse(<<"+", "[", ">", "[", "<", "-", "]", "<", "[", "-", ">", "+",
                 "<", "]", ">", "]">>).item

\* Item::parse("+[>[<-]<[->+<]>]>").expect("should be valid")
find_non_zero_cell_right ==
    Item_parse(<<"+", "[", ">", "[", "<", "-", "]", "<", "[", "-", ">", "+",
                 "<", "]", ">", "]", ">">>).item

\* Mutant of zero_check: the cell at the offset is increased after the loop.
zero_check_flagging(offset) ==
    Item_Sequence(<<
        Loop_new(<<zero_cell, offset_to_insns(offset), Item_Direct("Inc"),
                   offset_to_insns(-offset)>>),
        offset_to_insns(offset),
        Item_Direct("Inc"),
        offset_to_insns(-offset)>>)

zero_check(offset) ==
    Item_Sequence(<<
        Loop_new(<<zero_cell, offset_to_insns(offset), Item_Direct("Inc"),
                   offset_to_insns(-offset)>>),
        offset_to_insns(offset),
        Item_Direct("Dec"),
        offset_to_insns(-offset)>>)

\* display_decimal, its first part: 48 is put in each of the `width` cells
\* after the cell 2 * width + extra_gap right of the number, and 255 in the
\* cell 2 * width right of it; the head goes to the last digit.
display_init(width, extra_gap) ==
    <<offset_to_insns(2 * width + extra_gap),
      Item_Direct("Right"),
      Item_repeat(Item_Direct("Inc"), 8),
      Loop_new(<<Item_Direct("Dec"),
                 Item_Direct("Left"),
                 Item_repeat(Item_Direct("Inc"), 6),
                 Item_Direct("Right")>>),
      Item_Direct("Left"),
      Loop_new(<<Item_Direct("Dec"),
                 Item_repeat(Item_Sequence(<<Item_Direct("Right"),
                                             Item_Direct("Inc")>>), width),
                 Item_repeat(Item_Direct("Left"), width)>>),
      Item_AssertRelativePosition("display start", 2 * width + extra_gap,
                                  "init output end"),
      offset_to_insns(offset_from(2 * width + extra_gap, 2 * width)),
      Item_Direct("Dec"),
      offset_to_insns(offset_from(2 * width, width - 1))>>

\* display_decimal, the block commented "leading zeros filter".
leading_zeros_filter(width, extra_gap) ==
    Item_comment(
        Item_repeat(
            Item_Sequence(<<
                Loop_new(<<Item_Direct("Dec"),
                           offset_to_insns(width),
                           zero_cell,
                           Item_Direct("Inc"),
                           offset_to_insns(width + 1 + extra_gap),
                           Item_Direct("Inc"),
                           offset_to_insns(-(2 * width + 1 + extra_gap))>>),
                Item_Direct("Left")>>),
            width),
        "leading zeros filter", 120)

\* display_decimal, the loop that writes the bytes.
display_write(width, extra_gap) ==
    <<find_non_zero_cell_right,
      Item_Direct("Left"),
      Item_Direct("Inc"),
      Loop_new(<<Item_Direct("Right"),
                 offset_to_insns(width + 1 + extra_gap),
                 Item_Direct("Output"),
                 offset_to_insns(-(width + 1 + extra_gap)),
                 Item_Direct("Inc")>>)>>

\* Mutant of decimal_cleanup: 42 is taken from each byte, not 48.
decimal_cleanup_42(width, extra_gap) ==
    Item_comment(
        Item_Sequence(<<
            Item_repeat(Item_Sequence(<<Item_Direct("Left"), zero_cell>>),
                        width + 1),
            find_non_zero_cell_right,
            Item_AssertRelativePosition("display start",
                                        2 * width + 1 + extra_gap,
                                        "begin restore transport bytes"),
            Item_repeat(Item_Direct("Left"), 2),
            Item_repeat(Item_Direct("Inc"), 7),
            Loop_new(<<Item_Direct("Dec"),
                       Item_Direct("Right"),
                       Item_repeat(Item_Direct("Inc"), 6),
                       Item_Direct("Left")>>),
            Item_Direct("Right"),
            Loop_new(<<Item_Direct("Dec"),
                       Item_repeat(Item_Sequence(<<Item_Direct("Right"),
                                                   Item_Direct("Dec")>>), width),
                       Item_repeat(Item_Direct("Left"), width)>>),
            Item_repeat(Item_Direct("Left"), 2 * width + extra_gap)>>),
        "decimal cleanup", 120)

\* display_decimal, the block commented "decimal cleanup".
decimal_cleanup(width, extra_gap) ==
    Item_comment(
        Item_Sequence(<<
            Item_repeat(Item_Sequence(<<Item_Direct("Left"), zero_cell>>),
                        width + 1),
            find_non_zero_cell_right,
            Item_AssertRelativePosition("display start",
                                        2 * width + 1 + extra_gap,
                                        "begin restore transport bytes"),
            Item_repeat(Item_Direct("Left"), 2),
            Item_repeat(Item_Direct("Inc"), 8),
            Loop_new(<<Item_Direct("Dec"),
                       Item_Direct("Right"),
                       Item_repeat(Item_Direct("Inc"), 6),
                       Item_Direct("Left")>>),
            Item_Direct("Right"),
            Loop_new(<<Item_Direct("Dec"),
                       Item_repeat(Item_Sequence(<<Item_Direct("Right"),
                                                   Item_Direct("Dec")>>), width),
                       Item_repeat(Item_Direct("Left"), width)>>),
            Item_repeat(Item_Direct("Left"), 2 * width + extra_gap)>>),
        "decimal cleanup", 120)

display_decimal(width, extra_gap) ==
    Item_comment(
        Item_Sequence(
            <<Item_AddMarker("display start")>>
            \o display_init(width, extra_gap)
            \o <<leading_zeros_filter(width, extra_gap),
                 Item_AssertRelativePosition(
                     "display start", -1,
                     "after transport bytes leading zeros")>>
            \o display_write(width, extra_gap)
            \o <<decimal_cleanup(width, extra_gap),
                 Item_AssertRelativePosition("display start", 0,
                                             "decimal reset"),
                 Item_RemoveMarker("display start")>>),
        "display decimal {width=" \o ToString(width) \o "}", 180)

\* divide::new_zero_check: the cell is added to the accumulator, through a
\* temporary copy that is drained back.
new_zero_check(temp_copy, accumulator) ==
    Item_Sequence(<<
        Loop_new(<<Item_Direct("Dec"),
                   offset_to_insns(temp_copy),
                   Item_Direct("Inc"),
                   offset_to_insns(-temp_copy),
                   offset_to_insns(accumulator),
                   Item_Direct("Inc"),
                   offset_to_insns(-accumulator)>>),
        offset_to_insns(temp_copy),
        drain(<<-temp_copy>>, TRUE),
        offset_to_insns(-temp_copy)>>)

\* Mutant of zero_check_number: only the last cell of the number is looked at.
zero_check_number_last(width, temp_copy, accumulator) ==
    Item_comment(
        Item_Sequence(<<
            offset_to_insns(accumulator),
            zero_cell,
            offset_to_insns(-accumulator),
            Item_Sequence(<<new_zero_check(temp_copy, accumulator)>>
                          \o [k \in 1..width |-> Item_Direct("Left")]),
            offset_to_insns(width)>>),
        "zero check number {width=" \o ToString(width) \o "}", 120)

\* divide::zero_check_number, called on the last cell of the number.
zero_check_number(width, temp_copy, accumulator) ==
    Item_comment(
        Item_Sequence(<<
            offset_to_insns(accumulator),
            zero_cell,
            offset_to_insns(-accumulator),
            Item_Sequence(
                [k \in 1..(2 * width) |->
                    IF k % 2 = 1
                    THEN new_zero_check(temp_copy + (k - 1) \div 2,
                                        accumulator + (k - 1) \div 2)
                    ELSE Item_Direct("Left")]),
            offset_to_insns(width)>>),
        "zero check number {width=" \o ToString(width) \o "}", 120)

\* The cells of divide: ZC, SC and the fields N, D, T, Q, each named by its
\* last cell, X0 the cell after it. NW and DW are the constants
\* Positions::TRANSPORT_BYTES_WIDTH and Positions::NO_PACKETS_WIDTH.
Fields(NW, DW) ==
    LET ZC == 0
        SC == 1
        N == SC + 2 + NW - 1
        D == (N + 1) + DW
        TW == DW
        T == (D + 1) + TW
        QW == NW
        Q == (T + 1) + QW
    IN  [ZC |-> ZC, SC |-> SC, NW |-> NW, N |-> N, N0 |-> N + 1,
         DW |-> DW, D |-> D, D0 |-> D + 1, TW |-> TW, T |-> T, T0 |-> T + 1,
         QW |-> QW, Q |-> Q, Q0 |-> Q + 1]

\* divide, up to "Setup complete, at cell 0": the fields are found where the
\* markers are, and T and Q are set to 246 in every cell.
divide_setup(f) ==
    <<Item_AssertPosition(0, "before division"),
      offset_to_insns(offset_from(0, f.N)),
      Item_AssertRelativePosition("divide N", 0, "N correctly positioned"),
      offset_to_insns(offset_from(f.N, f.D)),
      Item_AssertRelativePosition("divide D", 0, "D correctly positioned"),
      offset_to_insns(offset_from(f.D, 0)),
      offset_to_insns(offset_from(0, f.T0)),
      Item_repeat(Item_Direct("Inc"), 10),
      Loop_new(<<Item_Direct("Dec"),
                 Item_repeat(Item_Sequence(<<Item_Direct("Left"),
                                             Item_Direct("Dec")>>), f.TW),
                 Item_repeat(Item_Direct("Right"), f.TW)>>),
      Item_AssertPosition(f.T0, "after init"),
      offset_to_insns(offset_from(f.T0, 0)),
      offset_to_insns(offset_from(0, f.Q0)),
      Item_repeat(Item_Direct("Inc"), 10),
      Loop_new(<<Item_Direct("Dec"),
                 Item_repeat(Item_Sequence(<<Item_Direct("Left"),
                                             Item_Direct("Dec")>>), f.QW),
                 offset_to_insns(f.QW)>>),
      Item_AssertPosition(f.Q0, "Q setup"),
      offset_to_insns(offset_from(f.Q0, 0))>>

\* Mutant of divide_else: D is left as T held it, 10 is not added back.
divide_else_biased(f) ==
    Loop_new(<<
        zero_cell,
        offset_to_insns(offset_from(f.ZC + 1, f.T)),
        Item_repeat(Item_Sequence(<<drain(<<offset_from(f.T, f.D)>>, TRUE),
                                    Item_Direct("Left")>>), f.TW),
        Item_AssertPosition(f.D + 1, "after restore D"),
        offset_to_insns(offset_from(f.D + 1, f.T0)),
        Item_repeat(Item_Direct("Inc"), 10),
        Loop_new(<<Item_Direct("Dec"),
                   Item_repeat(Item_Sequence(<<Item_Direct("Left"),
                                               Item_Direct("Dec")>>), f.TW),
                   Item_Direct("Left"),
                   Item_repeat(Item_Direct("Left"), f.DW),
                   Item_repeat(Item_Direct("Right"), f.TW + f.DW + 1)>>),
        Item_AssertPosition(f.T0, "after unreset T+D"),
        offset_to_insns(offset_from(f.T0, f.Q)),
        operate(DecimalAdd(f.QW), offset_from(f.Q, f.ZC)),
        Item_AssertPosition(f.Q, "after increment Q"),
        offset_to_insns(offset_from(f.Q, f.ZC + 1))>>)

\* divide, the loop commented "Else (i.e. d == 0)": D is given back what T
\* counted, T is set to 246 in every cell again, and Q is increased.
divide_else(f) ==
    Loop_new(<<
        zero_cell,
        offset_to_insns(offset_from(f.ZC + 1, f.T)),
        Item_repeat(Item_Sequence(<<drain(<<offset_from(f.T, f.D)>>, TRUE),
                                    Item_Direct("Left")>>), f.TW),
        Item_AssertPosition(f.D + 1, "after restore D"),
        offset_to_insns(offset_from(f.D + 1, f.T0)),
        Item_repeat(Item_Direct("Inc"), 10),
        Loop_new(<<Item_Direct("Dec"),
                   Item_repeat(Item_Sequence(<<Item_Direct("Left"),
                                               Item_Direct("Dec")>>), f.TW),
                   Item_Direct("Left"),
                   Item_repeat(Item_Sequence(<<Item_Direct("Left"),
                                               Item_Direct("Inc")>>), f.DW),
                   Item_repeat(Item_Direct("Right"), f.TW + f.DW + 1)>>),
        Item_AssertPosition(f.T0, "after unreset T+D"),
        offset_to_insns(offset_from(f.T0, f.Q)),
        operate(DecimalAdd(f.QW), offset_from(f.Q, f.ZC)),
        Item_AssertPosition(f.Q, "after increment Q"),
        offset_to_insns(offset_from(f.Q, f.ZC + 1))>>)

\* divide, the main loop: one is taken from N and from D and added to T;
\* when D has reached zero the else loop runs; the loop goes on while N is
\* not zero.
divide_loop(f) ==
    Loop_new(<<
        zero_cell,
        offset_to_insns(offset_from(f.ZC, f.N)),
        operate(DecimalSub(f.NW), offset_from(f.N, f.ZC)),
        Item_AssertPosition(f.N, "after N subtract"),
        offset_to_insns(offset_from(f.N, f.ZC)),
        zero_cell,
        offset_to_insns(offset_from(f.ZC, f.D)),
        operate(DecimalSub(f.DW), offset_from(f.D, f.ZC)),
        Item_AssertPosition(f.D, "after D subtract"),
        zero_check_number(f.DW, offset_from(f.D, f.SC), offset_from(f.D, f.ZC)),
        offset_to_insns(offset_from(f.D, f.ZC)),
        drain(<<offset_from(f.ZC, f.N0)>>, TRUE),
        offset_to_insns(offset_from(f.ZC, f.T)),
        operate(DecimalAdd(f.TW), offset_from(f.T, f.ZC)),
        Item_AssertPosition(f.T, "after T add"),
        offset_to_insns(offset_from(f.T, f.N0)),
        drain(<<offset_from(f.N0, f.ZC)>>, TRUE),
        offset_to_insns(offset_from(f.N0, f.ZC)),
        Item_Direct("Right"),
        zero_cell,
        Item_Direct("Inc"),
        Item_Direct("Left"),
        Loop_new(<<zero_cell, Item_Direct("Right"), zero_cell,
                   Item_Direct("Left")>>),
        Item_Direct("Right"),
        Item_AssertPosition(f.ZC + 1, "before else"),
        divide_else(f),
        offset_to_insns(offset_from(f.ZC + 1, f.N)),
        zero_check_number(f.NW, offset_from(f.N, f.SC), offset_from(f.N, f.ZC)),
        Item_AssertPosition(f.N, "before loop"),
        offset_to_insns(offset_from(f.N, f.ZC))>>)

\* divide, after the loop: 10 is added back to every cell of Q and Q is
\* displayed.
divide_finish(f) ==
    <<offset_to_insns(offset_from(f.ZC, f.Q0)),
      Item_repeat(Item_Direct("Inc"), 10),
      Loop_new(<<Item_Direct("Dec"),
                 Item_repeat(Item_Sequence(<<Item_Direct("Left"),
                                             Item_Direct("Inc")>>), f.QW),
                 offset_to_insns(f.QW)>>),
      Item_AssertPosition(f.Q0, "Q desetup"),
      offset_to_insns(-f.QW),
      display_decimal(f.QW, 0),
      Item_AssertPosition(f.Q - f.QW + 1, "after division"),
      offset_to_insns(offset_from(f.Q - f.QW + 1, 0))>>

divide(NW, DW) ==
    LET f == Fields(NW, DW) IN
    Item_Sequence(
        divide_setup(f)
        \o <<offset_to_insns(offset_from(0, f.N)),
             zero_check_number(f.NW, offset_from(f.N, f.SC),
                               offset_from(f.N, f.ZC)),
             Item_AssertPosition(f.N, "still here"),
             offset_to_insns(offset_from(f.N, f.ZC)),
             divide_loop(f)>>
        \o divide_finish(f))

----------------------------------------------------------------------------
(* The client's program (main.rs): the cells it uses, the packet loop and  *)
(* the list of destination addresses.                                      *)

\* zero_cell_up
zero_cell_up == Loop_new(<<Item_Direct("Inc")>>)

\* impl Positions: the cells of the client's tape.
Positions ==
    LET SCRATCH_SPACE_START == 0
        SCRATCH_SPACE == SCRATCH_SPACE_START + 3
        NO_PACKETS_WIDTH == 7
        NO_PACKETS_START == SCRATCH_SPACE + 1
        NO_PACKETS == NO_PACKETS_START + (NO_PACKETS_WIDTH - 1)
        NO_UDP_WIDTH == 7
        NO_UDP_START == NO_PACKETS + 2
        NO_UDP == NO_UDP_START + (NO_UDP_WIDTH - 1)
        TRANSPORT_BYTES_WIDTH == 9
        TRANSPORT_BYTES_START == NO_UDP + 2
        TRANSPORT_BYTES == TRANSPORT_BYTES_START + (TRANSPORT_BYTES_WIDTH - 1)
        PACKET_LOOP_START == TRANSPORT_BYTES + 2
        PACKET_IP_TOTAL_LENGTH_START == PACKET_LOOP_START
        PACKET_IP_TOTAL_LENGTH == PACKET_IP_TOTAL_LENGTH_START + 1
        PACKET_IP_TOTAL_LENGTH_SCRATCH == PACKET_IP_TOTAL_LENGTH + 1
        PACKET_IP_PROTOCOL == PACKET_IP_TOTAL_LENGTH_SCRATCH + 3
        PACKET_IP_DEST_START == PACKET_IP_PROTOCOL + 10
        PACKET_IP_DEST == PACKET_IP_DEST_START + 3
        LIST_HEADSTOP == PACKET_IP_DEST + 1
        SECONDARY_IP_STORED_START == LIST_HEADSTOP + 2
        \* ListEntry::WIDTH
        LIST_START == LIST_HEADSTOP + 9
    IN  [SCRATCH_SPACE_START |-> SCRATCH_SPACE_START,
         SCRATCH_SPACE |-> SCRATCH_SPACE,
         NO_PACKETS_START |-> NO_PACKETS_START, NO_PACKETS |-> NO_PACKETS,
         NO_PACKETS_WIDTH |-> NO_PACKETS_WIDTH,
         NO_UDP_START |-> NO_UDP_START, NO_UDP |-> NO_UDP,
         NO_UDP_WIDTH |-> NO_UDP_WIDTH,
         TRANSPORT_BYTES_START |-> TRANSPORT_BYTES_START,
         TRANSPORT_BYTES |-> TRANSPORT_BYTES,
         TRANSPORT_BYTES_WIDTH |-> TRANSPORT_BYTES_WIDTH,
         PACKET_LOOP_START |-> PACKET_LOOP_START,
         PACKET_IP_TOTAL_LENGTH_START |-> PACKET_IP_TOTAL_LENGTH_START,
         PACKET_IP_TOTAL_LENGTH |-> PACKET_IP_TOTAL_LENGTH,
         PACKET_IP_TOTAL_LENGTH_SCRATCH |-> PACKET_IP_TOTAL_LENGTH_SCRATCH,
         PACKET_IP_PROTOCOL |-> PACKET_IP_PROTOCOL,
         PACKET_IP_DEST_START |-> PACKET_IP_DEST_START,
         PACKET_IP_DEST |-> PACKET_IP_DEST,
         LIST_HEADSTOP |-> LIST_HEADSTOP,
         SECONDARY_IP_STORED_START |-> SECONDARY_IP_STORED_START,
         LIST_START |-> LIST_START]

\* impl ListEntry: the cells of one entry of the list, from its first cell.
ListEntry ==
    LET EXIST_FLAG == 0
        MARKED_FLAG == EXIST_FLAG + 1
        SCRATCH == MARKED_FLAG + 1
        SCRATCH_WIDTH == 2
        COUNT == SCRATCH + SCRATCH_WIDTH
        DATA_START == COUNT + 1
        DATA_WIDTH == 4
        DATA_END == DATA_START + DATA_WIDTH - 1
        WIDTH == DATA_END + 1
    IN  [EXIST_FLAG |-> EXIST_FLAG, MARKED_FLAG |-> MARKED_FLAG,
         SCRATCH |-> SCRATCH, SCRATCH_WIDTH |-> SCRATCH_WIDTH,
         COUNT |-> COUNT, DATA_START |-> DATA_START,
         DATA_WIDTH |-> DATA_WIDTH, DATA_END |-> DATA_END, WIDTH |-> WIDTH]

discard_inputs_while(offset) ==
    Loop_new(<<Item_Direct("Dec"), offset_to_insns(offset),
               Item_Direct("Input"), offset_to_insns(-offset)>>)

\* discard_header: 24 Inputs counted down in cell 1.
discard_header ==
    Item_comment(
        Item_Sequence(<<
            Item_repeat(Item_Direct("Inc"), 6),
            Loop_new(<<Item_Direct("Dec"), Item_Direct("Right"),
                       Item_repeat(Item_Direct("Inc"), 4),
                       Item_Direct("Left")>>),
            Item_Direct("Right"),
            discard_inputs_while(-1),
            Item_Direct("Left"),
            Item_AssertPosition(0, "discard header does not move head")>>),
        "discard header", 200)

read_u16 ==
    Item_Sequence(<<Item_Direct("Input"), Item_Direct("Right"),
                    Item_Direct("Input")>>)

read_u32 ==
    Item_Sequence(<<Item_Direct("Input"), Item_Direct("Right"),
                    Item_Direct("Input"), Item_Direct("Right"),
                    Item_Direct("Input"), Item_Direct("Right"),
                    Item_Direct("Input")>>)

read_u32_le ==
    Item_Sequence(<<Item_repeat(Item_Direct("Right"), 3),
                    Item_Direct("Input"), Item_Direct("Left"),
                    Item_Direct("Input"), Item_Direct("Left"),
                    Item_Direct("Input"), Item_Direct("Left"),
                    Item_Direct("Input")>>)

\* Mutant of packet_loop_before_check: the highest byte of the length is
\* not checked and the count starts at 3.
packet_loop_before_check_three_bytes ==
    Item_Sequence(<<
        Item_AssertPosition(Positions.PACKET_LOOP_START, "packet loop start"),
        Item_repeat(Item_Direct("Input"), 12),
        zero_cell,
        Item_repeat(Item_Direct("Inc"), 3),
        Item_Direct("Right"),
        read_u32_le,
        zero_check(-1),
        Item_Direct("Right"),
        zero_check(-2),
        Item_Direct("Right"),
        zero_check(-3),
        Item_Direct("Right"),
        zero_cell,
        Item_repeat(Item_Direct("Left"), 4)>>)

\* packet_loop_before_check: the record header is read; the cell
\* PACKET_LOOP_START is set to 4 and one is taken off for each byte of the
\* length that is zero.
packet_loop_before_check ==
    Item_Sequence(<<
        Item_AssertPosition(Positions.PACKET_LOOP_START, "packet loop start"),
        Item_repeat(Item_Direct("Input"), 12),
        zero_cell,
        Item_repeat(Item_Direct("Inc"), 4),
        Item_Direct("Right"),
        read_u32_le,
        zero_check(-1),
        Item_Direct("Right"),
        zero_check(-2),
        Item_Direct("Right"),
        zero_check(-3),
        Item_Direct("Right"),
        zero_check(-4),
        Item_repeat(Item_Direct("Left"), 4)>>)

handle_protocol ==
    Item_comment(
        Item_Sequence(<<
            Item_AssertPosition(Positions.PACKET_IP_PROTOCOL, "protocol start"),
            Item_Direct("Input"),
            Item_repeat(Item_Direct("Dec"), 17),
            Item_Direct("Right"),
            zero_cell,
            Item_Direct("Inc"),
            Item_Direct("Left"),
            Loop_indent(Loop_new(<<
                Item_Comment("if TCP", 160),
                Item_Direct("Right"),
                Item_Direct("Dec"),
                Item_Direct("Left"),
                zero_cell_up>>)),
            Item_Direct("Right"),
            Loop_indent(Loop_new(<<
                Item_Comment("else (if UDP)", 160),
                Item_Direct("Dec"),
                Item_AddMarker("else start"),
                offset_to_insns(offset_from(Positions.PACKET_IP_PROTOCOL + 1,
                                            Positions.NO_UDP)),
                operate(DecimalAdd(Positions.NO_UDP_WIDTH),
                        offset_from(Positions.NO_UDP,
                                    Positions.SCRATCH_SPACE_START)),
                offset_to_insns(offset_from(Positions.NO_UDP,
                                            Positions.PACKET_IP_PROTOCOL + 1)),
                Item_AssertRelativePosition("else start", 0, "branch end"),
                Item_RemoveMarker("else start")>>)),
            Item_Direct("Left")>>),
        "handle protocol", 100)

collapse_condition ==
    Item_Sequence(<<
        Item_AssertPosition(Positions.PACKET_IP_TOTAL_LENGTH_START,
                            "collapse total length call"),
        Item_repeat(Item_Direct("Right"), 2),
        zero_cell,
        Item_Direct("Right"),
        zero_cell,
        Item_repeat(Item_Direct("Left"), 3),
        Loop_new(<<drain(<<2>>, TRUE),
                   Item_repeat(Item_Direct("Right"), 3),
                   Item_Direct("Inc"),
                   Item_repeat(Item_Direct("Left"), 3)>>),
        Item_repeat(Item_Direct("Right"), 2),
        drain(<<-2>>, TRUE),
        Item_repeat(Item_Direct("Left"), 1),
        Loop_new(<<drain(<<1>>, TRUE),
                   Item_repeat(Item_Direct("Right"), 2),
                   Item_Direct("Inc"),
                   Item_repeat(Item_Direct("Left"), 2)>>),
        Item_Direct("Right"),
        drain(<<-1>>, TRUE),
        Item_Direct("Right"),
        Item_AssertPosition(Positions.PACKET_IP_TOTAL_LENGTH_SCRATCH + 1,
                            "flag of length left non-zero")>>)

handle_total_length ==
    Item_Sequence(<<
        Item_AssertPosition(Positions.PACKET_IP_TOTAL_LENGTH_START,
                            "total length call"),
        Item_repeat(Item_Direct("Right"), 4),
        Item_repeat(Item_Direct("Inc"), 20),
        Loop_new(<<Item_repeat(Item_Direct("Left"), 3),
                   operate(ByteSub(2), 1),
                   Item_repeat(Item_Direct("Right"), 3),
                   Item_Direct("Dec")>>),
        Item_repeat(Item_Direct("Left"), 4),
        collapse_condition,
        Loop_indent(Loop_new(<<
            Item_Direct("Input"),
            zero_cell,
            Item_repeat(Item_Direct("Left"), 2),
            Item_AssertPosition(Positions.PACKET_IP_TOTAL_LENGTH,
                                "packet IP length sub"),
            operate(ByteSub(2), 1),
            Item_AssertPosition(Positions.PACKET_IP_TOTAL_LENGTH,
                                "before transport bytes inc"),
            offset_to_insns(offset_from(Positions.PACKET_IP_TOTAL_LENGTH,
                                        Positions.TRANSPORT_BYTES)),
            operate(DecimalAdd(Positions.TRANSPORT_BYTES_WIDTH),
                    offset_from(Positions.TRANSPORT_BYTES,
                                Positions.SCRATCH_SPACE_START)),
            offset_to_insns(offset_from(Positions.TRANSPORT_BYTES,
                                        Positions.PACKET_IP_TOTAL_LENGTH_START)),
            Item_AssertPosition(Positions.PACKET_IP_TOTAL_LENGTH_START,
                                "after transport bytes inc"),
            collapse_condition>>))>>)

\* format!("[re]distribute {offset}") and format!("copy over {{offset={offset}}}")
distribute_comment(offset) ==
    CASE offset = 0 -> "[re]distribute 0"
      [] offset = 1 -> "[re]distribute 1"
      [] offset = 2 -> "[re]distribute 2"
      [] offset = 3 -> "[re]distribute 3"

copy_over_comment(offset) ==
    CASE offset = 0 -> "copy over {offset=0}"
      [] offset = 1 -> "copy over {offset=1}"
      [] offset = 2 -> "copy over {offset=2}"
      [] offset = 3 -> "copy over {offset=3}"

\* append_to_list, fn distribute: the octet at start_base + offset is moved
\* to to_base + offset and taken off (restore: added to) the same octet of
\* every entry of the list.
distribute(offset, restore) ==
    LET start_base == IF restore THEN Positions.SECONDARY_IP_STORED_START
                      ELSE Positions.PACKET_IP_DEST_START
        to_base == IF restore THEN Positions.PACKET_IP_DEST_START
                   ELSE Positions.SECONDARY_IP_STORED_START
        insn == IF restore THEN "Inc" ELSE "Dec"
    IN
    Item_Sequence(<<
        Item_AssertPosition(start_base + offset, "[re]distribute start"),
        Item_comment(
            Loop_indent(Loop_new(<<
                Item_Direct("Dec"),
                offset_to_insns(offset_from(start_base + offset,
                                            to_base + offset)),
                Item_Direct("Inc"),
                offset_to_insns(offset_from(to_base + offset,
                                            Positions.LIST_START)),
                Loop_new(<<offset_to_insns(ListEntry.DATA_START + offset),
                           Item_Direct(insn),
                           offset_to_insns(ListEntry.WIDTH
                                           - ListEntry.DATA_START - offset)>>),
                offset_to_insns(-ListEntry.WIDTH),
                Loop_new(<<offset_to_insns(-ListEntry.WIDTH)>>),
                Item_AssertPosition(Positions.LIST_HEADSTOP,
                                    "return to list head"),
                offset_to_insns(offset_from(Positions.LIST_HEADSTOP,
                                            start_base + offset))>>)),
            distribute_comment(offset), 80)>>)

\* append_to_list, fn accumulate_zero: MARKED_FLAG of the entry becomes 1
\* if the octet is not zero and is then added to SCRATCH + 1; the octet is
\* kept.
accumulate_zero(offset) ==
    Item_Sequence(<<
        Item_AssertRelativePosition("current zero target",
                                    ListEntry.DATA_START + offset,
                                    "target octet"),
        Loop_indent(Loop_new(<<
            Item_Direct("Dec"),
            offset_to_insns(offset_from(ListEntry.DATA_START + offset,
                                        ListEntry.SCRATCH + 1)),
            Item_Direct("Inc"),
            offset_to_insns(offset_from(ListEntry.SCRATCH + 1,
                                        ListEntry.MARKED_FLAG)),
            zero_cell,
            Item_Direct("Inc"),
            offset_to_insns(offset_from(ListEntry.MARKED_FLAG,
                                        ListEntry.DATA_START + offset))>>)),
        offset_to_insns(offset_from(ListEntry.DATA_START + offset,
                                    ListEntry.MARKED_FLAG)),
        drain(<<1>>, TRUE),
        offset_to_insns(offset_from(ListEntry.MARKED_FLAG,
                                    ListEntry.SCRATCH + 1)),
        drain(<<offset_from(ListEntry.SCRATCH + 1,
                            ListEntry.DATA_START + offset)>>, TRUE),
        offset_to_insns(offset_from(ListEntry.SCRATCH + 1,
                                    ListEntry.DATA_START + offset)),
        Item_AssertRelativePosition("current zero target",
                                    ListEntry.DATA_START + offset,
                                    "after target octet")>>)

\* append_to_list, fn copy_over: the octet of the address is moved into the
\* new entry.
copy_over(offset) ==
    Item_comment(
        Item_Sequence(<<
            Item_AssertPosition(Positions.LIST_HEADSTOP, "copy over"),
            offset_to_insns(offset_from(Positions.LIST_HEADSTOP,
                                        Positions.PACKET_IP_DEST_START + offset)),
            Loop_new(<<
                Item_Direct("Dec"),
                offset_to_insns(offset_from(Positions.PACKET_IP_DEST_START + offset,
                                            Positions.LIST_START)),
                Loop_new(<<offset_to_insns(ListEntry.WIDTH)>>),
                Item_AssertRelativePosition("new entry", ListEntry.WIDTH,
                                            "found entry"),
                offset_to_insns(offset_from(ListEntry.WIDTH,
                                            ListEntry.DATA_START + offset)),
                Item_Direct("Inc"),
                offset_to_insns(offset_from(ListEntry.DATA_START + offset,
                                            ListEntry.EXIST_FLAG)),
                Loop_new(<<offset_to_insns(-ListEntry.WIDTH)>>),
                Item_AssertPosition(Positions.LIST_HEADSTOP, "return"),
                offset_to_insns(offset_from(Positions.LIST_HEADSTOP,
                                            Positions.PACKET_IP_DEST_START + offset))>>),
            offset_to_insns(offset_from(Positions.PACKET_IP_DEST_START + offset,
                                        Positions.LIST_HEADSTOP))>>),
        copy_over_comment(offset), 80)

\* append_to_list, the loop over the entries: an entry whose octets are all
\* zero after distribute gets MARKED_FLAG and one more in COUNT.
check_each_known_ip ==
    Item_comment(
        Loop_indent(Loop_new(<<
            Item_AddMarker("current zero target"),
            offset_to_insns(ListEntry.DATA_START),
            accumulate_zero(0),
            Item_Direct("Right"),
            accumulate_zero(1),
            Item_Direct("Right"),
            accumulate_zero(2),
            Item_Direct("Right"),
            accumulate_zero(3),
            Item_AssertRelativePosition("current zero target",
                                        ListEntry.WIDTH - 1, "end"),
            offset_to_insns(offset_from(ListEntry.WIDTH - 1, ListEntry.SCRATCH)),
            Item_RemoveMarker("current zero target"),
            Item_Direct("Right"),
            Item_Direct("Inc"),
            Item_Direct("Left"),
            Loop_new(<<Item_Direct("Dec"), Item_Direct("Right"), zero_cell,
                       Item_Direct("Left")>>),
            Item_Direct("Right"),
            Item_comment(
                Loop_indent(Loop_new(<<
                    zero_cell,
                    offset_to_insns(offset_from(ListEntry.SCRATCH + 1,
                                                ListEntry.MARKED_FLAG)),
                    Item_Direct("Inc"),
                    offset_to_insns(offset_from(ListEntry.MARKED_FLAG,
                                                ListEntry.COUNT)),
                    Item_Direct("Inc"),
                    offset_to_insns(offset_from(ListEntry.COUNT,
                                                ListEntry.WIDTH)),
                    Loop_new(<<offset_to_insns(ListEntry.WIDTH)>>),
                    offset_to_insns(-ListEntry.WIDTH),
                    offset_to_insns(ListEntry.SCRATCH + 1)>>)),
                "if zero (IP match)", 120),
            offset_to_insns(offset_from(ListEntry.SCRATCH + 1,
                                        ListEntry.WIDTH))>>)),
        "check each known IP for a match", 130)

\* append_to_list, the walk back: the mark of a matching entry is carried
\* to LIST_HEADSTOP + 1.
carry_mark_back ==
    Loop_indent(Loop_new(<<
        Item_Direct("Right"),
        Loop_new(<<zero_cell,
                   Item_Direct("Left"),
                   Loop_new(<<offset_to_insns(-ListEntry.WIDTH)>>),
                   Item_Direct("Right"),
                   Item_Direct("Inc"),
                   Item_Direct("Left"),
                   offset_to_insns(offset_from(
                       Positions.LIST_HEADSTOP,
                       Positions.LIST_START + ListEntry.MARKED_FLAG))>>),
        Item_Direct("Left"),
        offset_to_insns(-ListEntry.WIDTH)>>))

\* append_to_list, "if mark (found)": the address is erased.
if_mark_found ==
    Item_comment(
        Loop_indent(Loop_new(<<
            Item_Direct("Dec"),
            Item_Direct("Right"),
            Item_Direct("Dec"),
            offset_to_insns(offset_from(Positions.LIST_HEADSTOP + 2,
                                        Positions.PACKET_IP_DEST_START)),
            Item_repeat(Item_Sequence(<<zero_cell, Item_Direct("Right")>>), 4),
            Item_Direct("Right")>>)),
        "if mark (found)", 120)

\* Mutant of else_new: the new entry's COUNT is left 0.
else_new_uncounted ==
    Item_comment(
        Loop_indent(Loop_new(<<
            zero_cell,
            offset_to_insns(offset_from(Positions.LIST_HEADSTOP + 2,
                                        Positions.LIST_START)),
            Loop_new(<<offset_to_insns(ListEntry.WIDTH)>>),
            Item_AddMarker("new entry"),
            Item_Direct("Inc"),
            offset_to_insns(offset_from(ListEntry.EXIST_FLAG, ListEntry.COUNT)),
            offset_to_insns(offset_from(ListEntry.COUNT, ListEntry.EXIST_FLAG)),
            Loop_new(<<offset_to_insns(-ListEntry.WIDTH)>>),
            copy_over(0),
            copy_over(1),
            copy_over(2),
            copy_over(3),
            Item_RemoveMarker("new entry"),
            Item_AssertPosition(Positions.LIST_HEADSTOP, "after copy_over"),
            offset_to_insns(2)>>)),
        "else (new)", 120)

\* append_to_list, "else (new)": an entry is made after the last one, with
\* EXIST_FLAG 1, COUNT 1 and the address.
else_new ==
    Item_comment(
        Loop_indent(Loop_new(<<
            zero_cell,
            offset_to_insns(offset_from(Positions.LIST_HEADSTOP + 2,
                                        Positions.LIST_START)),
            Loop_new(<<offset_to_insns(ListEntry.WIDTH)>>),
            Item_AddMarker("new entry"),
            Item_Direct("Inc"),
            offset_to_insns(offset_from(ListEntry.EXIST_FLAG, ListEntry.COUNT)),
            Item_Direct("Inc"),
            offset_to_insns(offset_from(ListEntry.COUNT, ListEntry.EXIST_FLAG)),
            Loop_new(<<offset_to_insns(-ListEntry.WIDTH)>>),
            copy_over(0),
            copy_over(1),
            copy_over(2),
            copy_over(3),
            Item_RemoveMarker("new entry"),
            Item_AssertPosition(Positions.LIST_HEADSTOP, "after copy_over"),
            offset_to_insns(2)>>)),
        "else (new)", 120)

append_to_list ==
    Item_Sequence(<<
        Item_AssertPosition(Positions.PACKET_IP_DEST_START, "start"),
        distribute(0, FALSE),
        Item_Direct("Right"),
        distribute(1, FALSE),
        Item_Direct("Right"),
        distribute(2, FALSE),
        Item_Direct("Right"),
        distribute(3, FALSE),
        Item_AssertPosition(Positions.PACKET_IP_DEST_START + 3,
                            "after distribute"),
        offset_to_insns(offset_from(Positions.PACKET_IP_DEST_START + 3,
                                    Positions.LIST_START)),
        check_each_known_ip,
        offset_to_insns(-ListEntry.WIDTH),
        carry_mark_back,
        Item_AssertPosition(Positions.LIST_HEADSTOP, "return to headstop"),
        offset_to_insns(offset_from(Positions.LIST_HEADSTOP,
                                    Positions.SECONDARY_IP_STORED_START)),
        distribute(0, TRUE),
        Item_Direct("Right"),
        distribute(1, TRUE),
        Item_Direct("Right"),
        distribute(2, TRUE),
        Item_Direct("Right"),
        distribute(3, TRUE),
        Item_AssertPosition(Positions.SECONDARY_IP_STORED_START + 3,
                            "after redistribute"),
        offset_to_insns(offset_from(Positions.SECONDARY_IP_STORED_START + 3,
                                    Positions.LIST_HEADSTOP + 2)),
        zero_cell,
        Item_Direct("Inc"),
        Item_Direct("Left"),
        if_mark_found,
        Item_AssertPosition(Positions.LIST_HEADSTOP + 1, "mark found"),
        Item_Direct("Right"),
        else_new,
        Item_AssertPosition(Positions.LIST_HEADSTOP + 2, "mark not found")>>)

packet_loop_after_check ==
    Item_Sequence(<<
        Item_AssertPosition(Positions.PACKET_IP_TOTAL_LENGTH_START,
                            "inc packet count"),
        offset_to_insns(offset_from(Positions.PACKET_IP_TOTAL_LENGTH_START,
                                    Positions.NO_PACKETS)),
        operate(DecimalAdd(Positions.NO_PACKETS_WIDTH),
                offset_from(Positions.NO_PACKETS, Positions.SCRATCH_SPACE_START)),
        offset_to_insns(offset_from(Positions.NO_PACKETS,
                                    Positions.PACKET_IP_TOTAL_LENGTH_START)),
        Item_repeat(Item_Direct("Input"), 2 * 6 + 2 + 2),
        Item_AssertPosition(Positions.PACKET_IP_TOTAL_LENGTH_START,
                            "packet ip total length start"),
        read_u16,
        Item_AssertPosition(Positions.PACKET_IP_TOTAL_LENGTH,
                            "packet ip total length"),
        Item_repeat(Item_Direct("Right"), 3),
        Item_Direct("Right"),
        Item_repeat(Item_Direct("Input"), 5),
        handle_protocol,
        Item_repeat(Item_Direct("Input"), 2),
        Item_repeat(Item_Direct("Input"), 4),
        Item_AssertPosition(Positions.PACKET_IP_DEST_START - 10, "before IP"),
        offset_to_insns(10),
        read_u32,
        Item_AssertPosition(Positions.PACKET_IP_DEST, "packet ip dest"),
        offset_to_insns(offset_from(Positions.PACKET_IP_DEST,
                                    Positions.PACKET_IP_DEST_START)),
        append_to_list,
        Item_AssertPosition(Positions.LIST_HEADSTOP + 2, "after list add"),
        offset_to_insns(offset_from(Positions.LIST_HEADSTOP + 2,
                                    Positions.PACKET_IP_TOTAL_LENGTH_START)),
        handle_total_length,
        Item_AssertPosition(Positions.PACKET_IP_TOTAL_LENGTH_SCRATCH + 1,
                            "total length done"),
        offset_to_insns(offset_from(Positions.PACKET_IP_TOTAL_LENGTH_SCRATCH + 1,
                                    Positions.PACKET_LOOP_START)),
        Item_Comment("end of packet", 190)>>)

read_packet_loop ==
    Item_Sequence(<<
        Item_comment(packet_loop_before_check, "before check", 180),
        Loop_indent(Loop_new(<<
            Item_comment(packet_loop_after_check, "after check", 180),
            Item_comment(packet_loop_before_check, "before check", 180)>>))>>)

\* setup_state: the three counters are set to 246 in every cell, with the
\* cell between two counters 0, and the head is moved to PACKET_LOOP_START.
setup_state ==
    Item_comment(
        Item_Sequence(<<
            Item_AssertPosition(0, "after header discard"),
            offset_to_insns(offset_from(0, Positions.NO_PACKETS_START)),
            Item_repeat(Item_Sequence(<<Item_Direct("Dec"), Item_Direct("Dec"),
                                        Item_Direct("Right")>>),
                        Positions.NO_PACKETS_WIDTH + Positions.NO_UDP_WIDTH
                        + Positions.TRANSPORT_BYTES_WIDTH + 2),
            Item_Direct("Right"),
            Item_repeat(Item_Direct("Inc"), 4),
            Loop_indent(Loop_new(<<
                Item_Direct("Left"),
                Item_Direct("Left"),
                Loop_new(<<Item_Direct("Dec"), Item_Direct("Left")>>),
                Item_AssertPosition(Positions.NO_PACKETS_START - 1, "left"),
                Item_Direct("Right"),
                Loop_new(<<Item_Direct("Dec"), Item_Direct("Right")>>),
                Item_Direct("Right"),
                Item_Direct("Dec"),
                Item_AssertPosition(Positions.TRANSPORT_BYTES + 2, "right")>>)),
            Item_AssertPosition(Positions.TRANSPORT_BYTES + 2, "add gaps"),
            offset_to_insns(offset_from(Positions.TRANSPORT_BYTES + 2,
                                        Positions.NO_PACKETS + 1)),
            zero_cell_up,
            offset_to_insns(offset_from(Positions.NO_PACKETS + 1,
                                        Positions.NO_UDP + 1)),
            zero_cell_up,
            Item_AssertPosition(Positions.NO_UDP + 1, "done"),
            offset_to_insns(offset_from(Positions.NO_UDP + 1,
                                        Positions.PACKET_LOOP_START))>>),
        "setup state", 250)

\* main, up to the call of output(): the program whose run reads the
\* capture.
main_items ==
    Item_Sequence(<<
        discard_header,
        setup_state,
        Item_AssertPosition(Positions.PACKET_LOOP_START, "start"),
        read_packet_loop>>)

----------------------------------------------------------------------------
(* InterpreterAction: the lowered form. *)

Instruction(i) == [kind |-> "Instruction", ins |-> i]
Comment(s, level) == [kind |-> "Comment", text |-> s, level |-> level]
EndComment == [kind |-> "EndComment"]
Indent(inc) == [kind |-> "Indent", inc |-> inc]
PrintTape == [kind |-> "PrintTape"]
AssertPosition(desired, why) ==
    [kind |-> "AssertPosition", desired |-> desired, why |-> why]
PlaceMarker(name) == [kind |-> "PlaceMarker", name |-> name]
RemoveMarker(name) == [kind |-> "RemoveMarker", name |-> name]
AssertRelative(name, offset, comment) ==
    [kind |-> "AssertRelative", name |-> name, offset |-> offset,
     comment |-> comment]

IsInstruction(a, i) == a.kind = "Instruction" /\ a.ins = i

\* InterpreterAction::as_instruction: Some(i) for an Instruction, else None.
as_instruction(a) == IF a.kind = "Instruction" THEN a.ins ELSE NoInstruction

\* Mutant of iter_once_if: the item is yielded whatever the condition.
iter_once_if_always(x, condition) == <<x>>

iter_once_if(x, condition) == IF condition THEN <<x>> ELSE <<>>

\* Mutant of repeat_take: the item is taken once before n is looked at.
repeat_take_do_while(xs, n) ==
    IF n = 0 THEN xs ELSE [k \in 1..(n * Len(xs)) |-> xs[((k - 1) % Len(xs)) + 1]]

\* std::iter::repeat(xs).take(n).flatten()
repeat_take(xs, n) ==
    [k \in 1..(n * Len(xs)) |-> xs[((k - 1) % Len(xs)) + 1]]

\* The marker and assertion variants of Item lower to one action each.
build_annotation(it) ==
    CASE it.kind = "AddMarker" -> <<PlaceMarker(it.name)>>
      [] it.kind = "RemoveMarker" -> <<RemoveMarker(it.name)>>
      [] it.kind = "AssertPosition" -> <<AssertPosition(it.desired, it.why)>>
      [] it.kind = "AssertRelativePosition" ->
            <<AssertRelative(it.name, it.offset, it.comment)>>

\* The sequences parts[lo], ..., parts[hi] one after the other. (The range is
\* halved only to keep the evaluation shallow.)
RECURSIVE flatten(_, _, _)
flatten(parts, lo, hi) ==
    IF lo = hi THEN parts[lo]
    ELSE LET mid == (lo + hi) \div 2 IN
         flatten(parts, lo, mid) \o flatten(parts, mid + 1, hi)

\* impl Buildable for Item, and for Vec<T>: into_iter().flat_map(build).
RECURSIVE Buildable_build(_), Vec_build(_)
Vec_build(xs) ==
    LET parts == [k \in 1..Len(xs) |-> Buildable_build(xs[k])] IN
    IF Len(parts) = 0 THEN <<>> ELSE flatten(parts, 1, Len(parts))

Buildable_build(it) ==
    CASE it.kind = "Sequence" -> Vec_build(it.items)
      [] it.kind = "Direct" -> <<Instruction(it.ins)>>
      [] it.kind = "Loop" ->
            iter_once_if(Indent(TRUE), it.change_indent)
            \o Vec_build(<<Item_Direct("Start")>> \o it.body
                         \o <<Item_Direct("End")>>)
            \o iter_once_if(Indent(FALSE), it.change_indent)
      [] it.kind = "Repeat" -> repeat_take(Buildable_build(it.item), it.n)
      [] it.kind = "Comment" -> <<Comment(it.text, it.level)>>
      [] it.kind = "EndComment" -> <<EndComment>>
      [] OTHER -> build_annotation(it)

----------------------------------------------------------------------------
(* Program: build (the bracket-linking pass) and as_text_clean. *)

NoPairs == [k \in {} |-> 0]

BuildOk(prs) == [ok |-> TRUE, pairs |-> prs, error |-> ""]
BuildErr(msg) == [ok |-> FALSE, pairs |-> NoPairs, error |-> msg]

\* pairs.insert(k, v)
insert(m, k, v) == (k :> v) @@ m

\* Mutant: a `]` records its pair in one direction only.
build_iteration_one_way(st, i, ins) ==
    IF st.error # "" THEN st
    ELSE IF IsInstruction(ins, "Start")
    THEN [st EXCEPT !.stack = Append(st.stack, i)]
    ELSE IF IsInstruction(ins, "End")
    THEN IF st.stack = <<>>
         THEN [st EXCEPT !.error = "unopened close"]
         ELSE LET matching == st.stack[Len(st.stack)] IN
              [st EXCEPT !.stack = SubSeq(st.stack, 1, Len(st.stack) - 1),
                         !.pairs = insert(st.pairs, i, matching)]
    ELSE st

\* Mutant: a `]` with no open `[` before it is skipped.
build_iteration_lenient(st, i, ins) ==
    IF st.error # "" THEN st
    ELSE IF IsInstruction(ins, "Start")
    THEN [st EXCEPT !.stack = Append(st.stack, i)]
    ELSE IF IsInstruction(ins, "End") /\ st.stack # <<>>
    THEN LET matching == st.stack[Len(st.stack)] IN
         [st EXCEPT !.stack = SubSeq(st.stack, 1, Len(st.stack) - 1),
                    !.pairs = insert(insert(st.pairs, i, matching),
                                     matching, i)]
    ELSE st

\* One iteration of the for loop of Program::build, at index i. An error
\* returned by `?` ends the loop: the iterations after it do nothing.
build_iteration(st, i, ins) ==
    IF st.error # "" THEN st
    ELSE IF IsInstruction(ins, "Start")
    THEN [st EXCEPT !.stack = Append(st.stack, i)]
    ELSE IF IsInstruction(ins, "End")
    THEN IF st.stack = <<>>
         THEN [st EXCEPT !.error = "unopened close"]
         ELSE LET matching == st.stack[Len(st.stack)] IN
              [st EXCEPT !.stack = SubSeq(st.stack, 1, Len(st.stack) - 1),
                         !.pairs = insert(insert(st.pairs, i, matching),
                                          matching, i)]
    ELSE st

\* The iterations for the indices lo .. hi - 1, in order, from state st. (The
\* range is halved only to keep the evaluation shallow: the iterations run
\* left to right.)
RECURSIVE build_for(_, _, _, _)
build_for(instrs, lo, hi, st) ==
    IF lo >= hi THEN st
    ELSE IF hi = lo + 1 THEN build_iteration(st, lo, instrs[lo + 1])
    ELSE LET mid == (lo + hi) \div 2
             left == build_for(instrs, lo, mid, st)
         IN  IF left.error # "" THEN left
             ELSE build_for(instrs, mid, hi, left)

Program_build(instrs) ==
    LET st == build_for(instrs, 0, Len(instrs),
                        [stack |-> <<>>, pairs |-> NoPairs, error |-> ""])
    IN  IF st.error # "" THEN BuildErr(st.error)
        ELSE IF st.stack # <<>> THEN BuildErr("unclosed open[s]")
        ELSE BuildOk(st.pairs)

IsSomeInstruction(a) == as_instruction(a) # NoInstruction

as_text_clean(instrs) ==
    LET is == SelectSeq(instrs, IsSomeInstruction) IN
    [k \in 1..Len(is) |-> as_char(as_instruction(is[k]))]

NotRendered == <<"(none)">>

\* The program was not parsed from a text.
NoText == <<"(no text)">>

----------------------------------------------------------------------------
(* The programs and inputs the model is run on. *)

Alphabet == {"<", ">", "+", "-", ",", ".", "[", "]"}

\* Texts beyond MaxTextLen: the scenarios of the documentation, nested and
\* consecutive loops, and texts holding a byte that is no instruction.
SampleTexts ==
    { <<",", ".">>,
      <<",", "[", ".", ",", "]">>,
      <<"+", "+", "+", "[", ">", "+", "+", "<", "-", "]", ">", ".">>,
      <<">", ">", ">", "[", "-", "]">>,
      <<"+", "[", "[", "-", "]", "]", ".">>,
      <<"[", "[", "]", "]", "[", "]">>,
      <<"+", "[", ">", "+", "[", "-", "]", "<", "-", "]">>,
      <<"[", "[", "]">>,
      <<"[", "]", "]", "[">>,
      <<",", ".", ",", ".", ",", ".">>,
      <<"+", " ", "-">>,
      <<"a">>,
      <<"+", "#">> }

Texts == UNION {[1..n -> Alphabet] : n \in 0..MaxTextLen} \cup SampleTexts

\* Trees made by the constructors rather than parsed.
SampleItems ==
    { Item_Repeat(Item_Direct("Inc"), U8),
      Item_comment(Item_Sequence(<<Item_Direct("Inc"), Item_Direct("Output")>>),
                   "wrapped", 200),
      Item_Sequence(<<Item_Comment("at the level", 160), Item_Direct("Output")>>),
      Item_Sequence(<<Item_Direct("Right"), Item_AssertPosition(1, "one")>>),
      Item_Sequence(<<Item_Direct("Right"), Item_AssertPosition(0, "one"),
                      Item_Direct("Output")>>),
      Item_Sequence(<<Item_AddMarker("m"), Item_Direct("Right"),
                      Item_AssertRelativePosition("m", 1, "right of m"),
                      Item_AddMarker("n"), Item_Direct("Left"),
                      Item_AssertRelativePosition("n", -1, "left of n"),
                      Item_RemoveMarker("m"), Item_RemoveMarker("n"),
                      Item_Direct("Inc"), Item_Direct("Output")>>),
      Item_Sequence(<<Item_AddMarker("m"), Item_Direct("Right"),
                      Item_AddMarker("m"), Item_Direct("Output")>>),
      Item_Sequence(<<Item_Direct("Input"), Item_RemoveMarker("m"),
                      Item_Direct("Input"), Item_Direct("Output")>>),
      Item_Sequence(<<Item_AddMarker("m"),
                      Item_AssertRelativePosition("m", 1, "not moved"),
                      Item_Direct("Output")>>),
      Item_Sequence(<<Item_AddMarker("m"),
                      Item_AssertRelativePosition("m", -1, "before the tape"),
                      Item_Direct("Input"), Item_Direct("Output")>>),
      Item_Sequence(<<Item_AssertRelativePosition("m", 0, "no marker"),
                      Item_Direct("Output")>>),
      Item_Sequence(<<Item_Comment("start", 200), Item_Direct("Inc"),
                      Loop_indent(Loop_new(<<Item_Comment("body", 100),
                                            Item_Direct("Output"),
                                            Loop_new(<<Item_Direct("Dec")>>)>>)),
                      Item_Repeat(Item_Direct("Output"), 0)>>),
      Item_Repeat(Item_Sequence(<<Item_Direct("Inc"),
                                  Loop_new(<<Item_Direct("Dec"),
                                             Item_Repeat(Item_Direct("Inc"), 0)>>),
                                  Item_Repeat(Item_Sequence(<<Item_Direct("Right")>>), 2)>>),
                  2) }

\* A tape for a numeric macro: the cells the program first writes, the cell
\* the head is then moved to, the scratch offset and the operations run there.
Widths == {1, 2}

NumericOperations(W) == {ByteAdd(W), ByteSub(W), DecimalAdd(W), DecimalSub(W)}

DigitCells == {0, 9, 246, 255}

PlainDigits == {0, 1, 9}

\* The scratch cells right after the digits (scratch_offset 1).
ScratchRight(ops, digits) ==
    [ops |-> ops, cells |-> digits \o <<0, 0>>, head |-> Len(digits) - 1,
     scratch_offset |-> 1]

\* A zero cell between the digits and the scratch cells (scratch_offset 2).
ScratchBeyond(ops, digits) ==
    [ops |-> ops, cells |-> digits \o <<0, 0, 0>>, head |-> Len(digits) - 1,
     scratch_offset |-> 2]

\* The scratch cells, not zero, left of the digits (a negative scratch_offset).
ScratchLeft(ops, digits) ==
    [ops |-> ops, cells |-> <<2, 1>> \o digits \o <<0>>,
     head |-> Len(digits) + 1, scratch_offset |-> -(Len(digits) + 1)]

\* One operation, on every tape of the cells above.
SingleSamples(W) ==
    UNION { { ScratchRight(<<N>>, d), ScratchLeft(<<N>>, d) }
            \cup (IF W = 1 THEN {ScratchBeyond(<<N>>, d)} ELSE {}) :
               N \in NumericOperations(W), d \in [1..W -> DigitCells] }

\* A decimal operation followed by the opposite one, on decimal digits.
PairSamples(W) ==
    UNION { { ScratchRight(<<DecimalAdd(W), DecimalSub(W)>>, d),
              ScratchRight(<<DecimalSub(W), DecimalAdd(W)>>, d) } :
               d \in [1..W -> PlainDigits] }

\* Three digits, every cell at one end of its range.
WideSamples ==
    { ScratchRight(<<N>>, d) :
         N \in NumericOperations(3), d \in [1..3 -> {0, U8 - 1}] }

\* DecimalSub on decimal digits, with borrows out of a 0 and into a 1.
BorrowSamples ==
    { ScratchRight(<<DecimalSub(Len(d))>>, d) :
         d \in { <<1>>, <<1, 0>>, <<1, 1>>, <<1, 0, 0>>, <<9, 1, 0>> } }

\* A two-digit number among other cells that are not zero: two cells left of
\* it, a zero cell and the scratch cells (not zero) right of it, one more
\* cell after them; and a marker placed before the operation.
FramedSamples ==
    { [ops |-> <<N>>, cells |-> <<7, 3>> \o d \o <<0, 2, 1, 5>>, head |-> 3,
       scratch_offset |-> 2, marker |-> "packet"] :
         N \in NumericOperations(2),
         d \in { <<0, 0>>, <<1, 0>>, <<9, 255>>, <<255, 255>> } }

NumericSamples ==
    UNION {SingleSamples(W) \cup PairSamples(W) : W \in Widths} \cup WideSamples
    \cup BorrowSamples \cup FramedSamples

\* The instructions that bring a zero cell to the value c.
poke(c) ==
    IF 2 * c <= U8
    THEN Item_repeat(Item_Direct("Inc"), c)
    ELSE Item_repeat(Item_Direct("Dec"), U8 - c)

\* The program of a sample: place its marker if it has one, write the cells
\* from cell 0 on, move the head, run the operations.
NumericItem(smp) ==
    Item_Sequence(
       (IF "marker" \in DOMAIN smp THEN <<Item_AddMarker(smp.marker)>> ELSE <<>>)
       \o [k \in 1..Len(smp.cells) |->
           Item_Sequence(<<poke(smp.cells[k])>>
                         \o IF k < Len(smp.cells) THEN <<Item_Direct("Right")>>
                            ELSE <<>>)]
       \o <<offset_to_insns(smp.head - (Len(smp.cells) - 1))>>
       \o [k \in 1..Len(smp.ops) |-> operate(smp.ops[k], smp.scratch_offset)])

NumericItems == {NumericItem(smp) : smp \in NumericSamples}

\* A program for a helper: write the cells from cell 0 on, move the head to
\* `head`, run the items of `body`.
on_tape(cells, head, body) ==
    Item_Sequence(
       [k \in 1..Len(cells) |->
           Item_Sequence(<<poke(cells[k])>>
                         \o IF k < Len(cells) THEN <<Item_Direct("Right")>>
                            ELSE <<>>)]
       \o <<offset_to_insns(head - (Len(cells) - 1))>>
       \o body)

\* drain: the offsets, both directions of change, the values drained and the
\* value t every other cell holds. The source is cell 2 of five cells. The
\* last three lists visit the source cell itself or go left of cell 0.
DrainOffsets ==
    { <<1>>, <<-1>>, <<2>>, <<-2, 4>>, <<1, 0>>, <<1, 1, -1>>,
      <<0>>, <<1, -1>>, <<-3>> }

DrainValues == {0, 1, 2, U8 - 1}

DrainSamples ==
    { [offsets |-> o, add |-> a, v |-> v, head |-> 2,
       cells |-> <<t, t, v, t, t>>] :
         o \in DrainOffsets, a \in BOOLEAN, v \in DrainValues,
         t \in {0, U8 - 2} }

DrainItem(smp) ==
    on_tape(smp.cells, smp.head, <<drain(smp.offsets, smp.add)>>)

DrainItems == {DrainItem(smp) : smp \in DrainSamples}

\* zero_check: the offsets, the values of the cell checked (cell 4 of six
\* cells), the cell at the offset 0 and every other cell 5.
ZeroCheckSamples ==
    { [offset |-> o, c |-> c, head |-> 4,
       cells |-> [k \in 1..6 |-> IF k - 1 = 4 THEN c
                                 ELSE IF k - 1 = 4 + o THEN 0 ELSE 5]] :
         o \in {1, -1, -4}, c \in {0, 1, 2, U8 - 1} }

ZeroCheckItem(smp) == on_tape(smp.cells, smp.head, <<zero_check(smp.offset)>>)

ZeroCheckItems == {ZeroCheckItem(smp) : smp \in ZeroCheckSamples}

\* find_non_zero_cell_right: `left` cells, the start cell after them, `gap`
\* zero cells, a nonzero cell x, and the cells `right` after it. The left
\* neighbour of the start cell is 0 but for the `left` of one cell.
FindSamples ==
    { [head |-> Len(left), cells |-> left \o <<0>> \o [k \in 1..gap |-> 0]
                                          \o <<x>> \o right] :
         left \in { <<0>>, <<3, 0>>, <<3>> }, gap \in 0..2, x \in {1, U8 - 1},
         right \in { <<>>, <<7>>, <<0, 7>> } }

FindItem(smp) == on_tape(smp.cells, smp.head, <<find_non_zero_cell_right>>)

FindItems == {FindItem(smp) : smp \in FindSamples}

\* display_decimal: the number's digits from cell `head` on, zero cells
\* before it.
DisplaySamples ==
    { [width |-> Len(d), extra_gap |-> 0, head |-> h,
       cells |-> [k \in 1..h |-> 0] \o d] :
         d \in { <<0>>, <<1>>, <<9>>, <<4, 2>>, <<0, 7>>, <<3, 0>>, <<0, 0>>,
                 <<1, 0, 9>>, <<0, 9, 0>> },
         h \in {1, 2} }
    \cup { [width |-> 2, extra_gap |-> 1, head |-> 1, cells |-> <<0>> \o d] :
              d \in { <<4, 2>>, <<0, 0>> } }

DisplayItem(smp) ==
    on_tape(smp.cells, smp.head, <<display_decimal(smp.width, smp.extra_gap)>>)

DisplayItems == {DisplayItem(smp) : smp \in DisplaySamples}

\* divide: the digits of the dividend and of the divisor, most significant
\* first. The program is what output() does before the call: the digits are
\* in their fields, the markers "divide D" and "divide N" are placed on D
\* and N, and the head is on cell 0.
DivideSamples ==
    { [ns |-> <<n>>, ds |-> <<d>>] : n \in {0, 1, 3}, d \in {1, 2} }
    \cup { [ns |-> <<3>>, ds |-> <<0>>],
           [ns |-> <<0, 7>>, ds |-> <<2>>],
           [ns |-> <<1, 0>>, ds |-> <<1>>],
           [ns |-> <<1, 2>>, ds |-> <<1, 0>>] }

DivideCells(smp) ==
    LET f == Fields(Len(smp.ns), Len(smp.ds)) IN
    [k \in 1..(f.D + 1) |->
        IF k - 1 \in (f.N - f.NW + 1)..f.N
        THEN smp.ns[k - 1 - (f.N - f.NW)]
        ELSE IF k - 1 \in (f.D - f.DW + 1)..f.D
        THEN smp.ds[k - 1 - (f.D - f.DW)]
        ELSE 0]

DivideItem(smp) ==
    LET f == Fields(Len(smp.ns), Len(smp.ds)) IN
    on_tape(DivideCells(smp), f.D,
            <<Item_AddMarker("divide D"),
              offset_to_insns(offset_from(f.D, f.N)),
              Item_AddMarker("divide N"),
              offset_to_insns(offset_from(f.N, 0)),
              divide(f.NW, f.DW)>>)

DivideItems == {DivideItem(smp) : smp \in DivideSamples}

\* operate::<DecimalAdd<8>> called 42 times on eight cells, each holding
\* `zero`: the digits are cells 0 to 7, the scratch cells 8 and 9, and
\* cell 10 counts the calls left. The head is back on the last digit at the
\* end.
CounterSamples ==
    { [width |-> 8, adds |-> 42, zero |-> z, head |-> 7,
       cells |-> [k \in 1..8 |-> z] \o <<0, 0, 42>>] : z \in {0, 246} }

CounterItem(smp) ==
    on_tape(smp.cells, Len(smp.cells) - 1,
            <<Loop_new(<<Item_Direct("Dec"),
                         offset_to_insns(offset_from(Len(smp.cells) - 1, smp.head)),
                         operate(DecimalAdd(smp.width), 1),
                         Item_AssertPosition(smp.head, "after operate"),
                         offset_to_insns(offset_from(smp.head, Len(smp.cells) - 1))>>),
              offset_to_insns(offset_from(Len(smp.cells) - 1, smp.head))>>)

CounterItems == {CounterItem(smp) : smp \in CounterSamples}

\* The capture files read by the client's program. The global header of a
\* capture file: 24 bytes.
CaptureHeader ==
    <<212, 195, 178, 161, 2, 0, 4, 0, 0, 0, 0, 0, 0, 0, 0, 0,
      255, 255, 0, 0, 1, 0, 0, 0>>

\* One record: the 16 bytes of the record header, ending with the four
\* bytes of the length (lowest first), an Ethernet header of 14 bytes and an
\* IPv4 packet with a header of 20 bytes.
CaptureRecord(r) ==
    <<1, 0, 0, 0, 2, 0, 0, 0>> \o r.length \o r.length
    \o <<2, 0, 0, 0, 0, 1, 2, 0, 0, 0, 0, 2, 8, 0>>
    \o <<69, 0, 0, 20 + Len(r.payload), 0, 1, 64, 0, 64, r.protocol, 0, 0,
         10, 0, 0, 1>>
    \o r.dest \o r.payload

TCP == 6
UDP == 17

Packet(length, protocol, dest, payload) ==
    [length |-> length, protocol |-> protocol, dest |-> dest,
     payload |-> payload]

\* The captures tried: no file at all, a header alone, one and two packets
\* with each byte of the length the only nonzero one, a record whose length
\* is zero before and after a packet, and a file cut inside a record.
CaptureSamples ==
    { [header |-> <<>>, records |-> <<>>, cut |-> 0],
      [header |-> CaptureHeader, records |-> <<>>, cut |-> 0],
      [header |-> CaptureHeader, cut |-> 0,
       records |-> <<Packet(<<34, 0, 0, 0>>, TCP, <<2, 0, 0, 0>>, <<>>)>>],
      [header |-> CaptureHeader, cut |-> 0,
       records |-> <<Packet(<<0, 1, 0, 0>>, UDP, <<0, 0, 0, 0>>, <<7>>)>>],
      [header |-> CaptureHeader, cut |-> 0,
       records |-> <<Packet(<<0, 0, 1, 0>>, TCP, <<2, 0, 0, 0>>, <<>>),
                     Packet(<<0, 0, 0, 1>>, TCP, <<1, 0, 0, 0>>, <<>>)>>],
      [header |-> CaptureHeader, cut |-> 0,
       records |-> <<Packet(<<1, 1, 1, 1>>, TCP, <<1, 1, 0, 0>>, <<>>),
                     Packet(<<34, 0, 0, 0>>, TCP, <<1, 1, 0, 0>>, <<>>)>>],
      [header |-> CaptureHeader, cut |-> 0,
       records |-> <<Packet(<<0, 0, 0, 0>>, TCP, <<2, 0, 0, 0>>, <<>>),
                     Packet(<<34, 0, 0, 0>>, TCP, <<2, 0, 0, 0>>, <<>>)>>],
      [header |-> CaptureHeader, cut |-> 0,
       records |-> <<Packet(<<34, 0, 0, 0>>, TCP, <<2, 0, 0, 0>>, <<>>),
                     Packet(<<0, 0, 0, 0>>, TCP, <<2, 0, 0, 0>>, <<>>),
                     Packet(<<34, 0, 0, 0>>, TCP, <<2, 0, 0, 0>>, <<>>)>>],
      [header |-> CaptureHeader, cut |-> 20,
       records |-> <<Packet(<<34, 0, 0, 0>>, TCP, <<2, 0, 0, 0>>, <<>>)>>] }

RECURSIVE RecordBytes(_, _)
RecordBytes(records, k) ==
    IF k = 0 THEN <<>>
    ELSE RecordBytes(records, k - 1) \o CaptureRecord(records[k])

\* The bytes of a capture: the last `cut` bytes are missing.
CaptureBytes(smp) ==
    LET all == smp.header \o RecordBytes(smp.records, Len(smp.records)) IN
    SubSeq(all, 1, Len(all) - smp.cut)

\* The records of a capture, without the file's header.
RecordsOf(smp) ==
    LET all == RecordBytes(smp.records, Len(smp.records)) IN
    SubSeq(all, 1, Len(all) - smp.cut)

\* append_to_list: the address in the cells PACKET_IP_DEST_START.. and the
\* entries of the list, each with its COUNT and its four DATA cells. The
\* lists have no entry, one, two and three; the address is new or that of
\* the first, the second or of two entries, and differs from an entry's in
\* one octet, upwards or downwards; a COUNT of 255 is tried.
Entry(count, data) == [count |-> count, data |-> data]

AppendSamples ==
    { [address |-> a, entries |-> es] :
        a \in { <<0, 0, 0, 0>>, <<1, 0, 0, 0>> },
        es \in { <<>>, <<Entry(1, <<0, 0, 0, 0>>)>>,
                 <<Entry(1, <<1, 0, 0, 0>>)>>,
                 <<Entry(255, <<1, 0, 0, 0>>)>>,
                 <<Entry(1, <<1, 0, 0, 1>>)>>,
                 <<Entry(3, <<2, 0, 0, 0>>), Entry(7, <<1, 0, 0, 0>>)>>,
                 <<Entry(3, <<1, 0, 0, 0>>), Entry(2, <<1, 1, 0, 0>>)>>,
                 <<Entry(3, <<1, 0, 0, 0>>), Entry(2, <<1, 0, 0, 0>>)>> } }
    \cup
    { [address |-> <<1, 1, 0, 0>>,
       entries |-> <<Entry(3, <<1, 1, 0, 1>>), Entry(2, <<2, 1, 0, 0>>)>>],
      [address |-> <<0, 1, 0, 0>>,
       entries |-> <<Entry(1, <<0, 2, 0, 0>>), Entry(2, <<0, 1, 0, 0>>),
                     Entry(3, <<1, 1, 0, 0>>)>>],
      [address |-> <<0, 0, 1, 1>>,
       entries |-> <<Entry(1, <<0, 0, 1, 1>>)>>],
      [address |-> <<2, 0, 0, 0>>,
       entries |-> <<Entry(1, <<1, 0, 0, 0>>)>>] }

\* The cells of one entry: EXIST_FLAG 1, MARKED_FLAG and SCRATCH 0, COUNT
\* and DATA.
EntryCells(en) == <<1, 0, 0, 0, en.count>> \o en.data

RECURSIVE ListCells(_, _)
ListCells(entries, k) ==
    IF k = 0 THEN <<>>
    ELSE ListCells(entries, k - 1) \o EntryCells(entries[k])

\* The tape append_to_list is called on: 5 in PACKET_IP_PROTOCOL, where the
\* packet loop leaves a byte of the source address, the address, zeros from
\* LIST_HEADSTOP to LIST_START, the entries.
AppendCells(smp) ==
    [k \in 1..Positions.PACKET_IP_DEST_START |->
        IF k = Positions.PACKET_IP_PROTOCOL + 1 THEN 5 ELSE 0]
    \o smp.address
    \o [k \in 1..(Positions.LIST_START - Positions.LIST_HEADSTOP) |-> 0]
    \o ListCells(smp.entries, Len(smp.entries))

AppendItem(smp) ==
    on_tape(AppendCells(smp), Positions.PACKET_IP_DEST_START, <<append_to_list>>)

AppendItems == {AppendItem(smp) : smp \in AppendSamples}

\* Action lists handed to Program::build as they are.
SampleActions ==
    { <<Instruction("Right"), Instruction("Inc"), PrintTape,
        Instruction("Output")>>,
      <<Comment("c", 160), Instruction("Start"), Indent(TRUE),
        Instruction("End"), Instruction("End")>> }

InputBytes == {0, 65}

SampleInputs == { <<72, 69, 76, 76, 79, 0>>, <<65, 0>> }

Inputs == UNION {[1..n -> InputBytes] : n \in 0..MaxInputLen} \cup SampleInputs

PrintLevels == {160}

----------------------------------------------------------------------------
(* The initial states: a text to parse, a tree, or an action list. *)

NoMarkers == [k \in {} |-> 0]

Init ==
    /\ \/ /\ pc = "source"
          /\ text \in Texts
          /\ item = NoItem
          /\ instructions = <<>>
       \/ /\ pc = "parsed"
          /\ text = NoText
          /\ item \in SampleItems \cup NumericItems
          /\ instructions = <<>>
       \/ /\ pc = "lowered"
          /\ text = NoText
          /\ item = NoItem
          /\ instructions \in SampleActions
    /\ pairs = NoPairs
    /\ rendered = NotRendered
    /\ error = ""
    /\ input = <<>>
    /\ inpos = 0
    /\ stdout = <<>>
    /\ instruction_pointer = 0
    /\ tape_pointer = 0
    /\ tape = <<>>
    /\ printing_level = None
    /\ markers = NoMarkers
    /\ executed = 0

machine == <<input, inpos, stdout, instruction_pointer, tape_pointer, tape,
             printing_level, markers, executed>>

----------------------------------------------------------------------------
(* Building: parse, lower, link, print. *)

\* Item::parse(text)
Parse ==
    /\ pc = "source"
    /\ LET r == Item_parse(text) IN
       /\ pc' = IF r.ok THEN "parsed" ELSE "parse_error"
       /\ item' = r.item
       /\ error' = r.error
    /\ UNCHANGED <<text, instructions, pairs, rendered, machine>>

\* item.build()
Lower ==
    /\ pc = "parsed"
    /\ instructions' = Buildable_build(item)
    /\ pc' = "lowered"
    /\ UNCHANGED <<text, item, pairs, rendered, error, machine>>

\* Program::build(instructions)
Link ==
    /\ pc = "lowered"
    /\ LET r == Program_build(instructions) IN
       /\ pc' = IF r.ok THEN "linked" ELSE "link_error"
       /\ pairs' = r.pairs
       /\ error' = r.error
    /\ UNCHANGED <<text, item, instructions, rendered, machine>>

\* program.as_text_clean()
AsTextClean ==
    /\ pc = "linked"
    /\ rendered = NotRendered
    /\ rendered' = as_text_clean(instructions)
    /\ UNCHANGED <<pc, text, item, instructions, pairs, error, machine>>

\* Interpreter::new(program, input): the program is moved into the interpreter.
NewInterpreter ==
    /\ pc = "linked"
    /\ \E i \in Inputs : input' = i
    /\ pc' = "new"
    /\ inpos' = 0
    /\ instruction_pointer' = 0
    /\ tape_pointer' = 0
    /\ tape' = <<0>>
    /\ printing_level' = None
    /\ markers' = NoMarkers
    /\ rendered' = NotRendered
    /\ UNCHANGED <<text, item, instructions, pairs, error, stdout, executed>>

\* interpreter.set_print_level(level)
SetPrintLevel ==
    /\ pc = "new"
    /\ printing_level = None
    /\ \E level \in PrintLevels : printing_level' = level
    /\ UNCHANGED <<pc, text, item, instructions, pairs, rendered, error, input,
                   inpos, stdout, instruction_pointer, tape_pointer, tape,
                   markers, executed>>

\* interpreter.run() is entered.
Run ==
    /\ pc = "new"
    /\ pc' = "running"
    /\ UNCHANGED <<text, item, instructions, pairs, rendered, error, machine>>

built == <<text, item, instructions, pairs, rendered>>

----------------------------------------------------------------------------
(* Interpreter::run: one action per arm of the match, each one iteration   *)
(* of the loop, ending with instruction_pointer += 1.                      *)

\* The loop is at an action of this kind.
AtKind(kind) ==
    /\ pc = "running"
    /\ instruction_pointer < Len(instructions)
    /\ instructions[instruction_pointer + 1].kind = kind

\* The loop is at this Instruction.
At(i) == AtKind("Instruction") /\ instructions[instruction_pointer + 1].ins = i

Current == instructions[instruction_pointer + 1]

\* self.tape[self.tape_pointer]
Cell == tape[tape_pointer + 1]

\* self.tape[self.tape_pointer] = v
SetCell(v) == tape' = [tape EXCEPT ![tape_pointer + 1] = v]

\* Vec::resize(new_len, value)
resize(t, new_len, value) ==
    IF new_len <= Len(t) THEN SubSeq(t, 1, new_len)
    ELSE t \o [k \in 1..(new_len - Len(t)) |-> value]

\* A panic unwinds out of run(): nothing after it in the iteration happens.
Panic(message) == pc' = "panic" /\ error' = message

\* The iteration completes: self.instruction_pointer += 1 after a jump to `at`.
AdvanceFrom(at) == instruction_pointer' = at + 1 /\ UNCHANGED <<pc, error>>

Advance == AdvanceFrom(instruction_pointer)

StepLeft ==
    /\ At("Left")
    /\ LET r == checked_sub(tape_pointer, 1) IN
       IF r = None
       THEN /\ Panic("called Option::unwrap() on a None value")
            /\ UNCHANGED <<tape_pointer, instruction_pointer>>
       ELSE /\ tape_pointer' = r
            /\ Advance
    /\ UNCHANGED <<built, input, inpos, stdout, tape, printing_level, markers,
                   executed>>

\* Mutant: the tape is grown to the new index, not past it.
StepRight_short ==
    /\ At("Right")
    /\ tape_pointer + 1 < MaxTape
    /\ LET r == checked_add(tape_pointer, 1) IN
       IF r = None
       THEN /\ Panic("called Option::unwrap() on a None value")
            /\ UNCHANGED <<tape_pointer, tape, instruction_pointer>>
       ELSE /\ tape_pointer' = r
            /\ tape' = IF r >= Len(tape) THEN resize(tape, r, 0) ELSE tape
            /\ Advance
    /\ UNCHANGED <<built, input, inpos, stdout, printing_level, markers,
                   executed>>

StepRight ==
    /\ At("Right")
    /\ tape_pointer + 1 < MaxTape
    /\ LET r == checked_add(tape_pointer, 1) IN
       IF r = None
       THEN /\ Panic("called Option::unwrap() on a None value")
            /\ UNCHANGED <<tape_pointer, tape, instruction_pointer>>
       ELSE /\ tape_pointer' = r
            /\ tape' = IF r >= Len(tape) THEN resize(tape, r + 1, 0) ELSE tape
            /\ Advance
    /\ UNCHANGED <<built, input, inpos, stdout, printing_level, markers,
                   executed>>

StepInc ==
    /\ At("Inc")
    /\ SetCell(wrapping_add(Cell, 1))
    /\ Advance
    /\ UNCHANGED <<built, input, inpos, stdout, tape_pointer, printing_level,
                   markers, executed>>

StepDec ==
    /\ At("Dec")
    /\ SetCell(wrapping_sub(Cell, 1))
    /\ Advance
    /\ UNCHANGED <<built, input, inpos, stdout, tape_pointer, printing_level,
                   markers, executed>>

\* read_exact(&mut b) on the input source, b = [0] before the call: the next
\* byte, or UnexpectedEof with b untouched.
\* Mutant: the source is read at its start each time.
read_exact_rewound(src, pos) ==
    IF pos < Len(src)
    THEN [eof |-> FALSE, byte |-> src[1], pos |-> pos + 1]
    ELSE [eof |-> TRUE, byte |-> 0, pos |-> pos]

read_exact(src, pos) ==
    IF pos < Len(src)
    THEN [eof |-> FALSE, byte |-> src[pos + 1], pos |-> pos + 1]
    ELSE [eof |-> TRUE, byte |-> 0, pos |-> pos]

StepInput ==
    /\ At("Input")
    /\ executed < MaxExecuted
    /\ LET r == read_exact(input, inpos) IN
       /\ inpos' = r.pos
       /\ SetCell(r.byte)
    /\ executed' = executed + 1
    /\ Advance
    /\ UNCHANGED <<built, input, stdout, tape_pointer, printing_level, markers>>

\* read_exact fails with an error other than UnexpectedEof: run returns it.
StepInputError ==
    /\ At("Input")
    /\ pc' = "io_error"
    /\ error' = "input"
    /\ UNCHANGED <<built, machine>>

\* What write_all(&[byte]) and println! put on standard output.
Byte(b) == [kind |-> "byte", byte |-> b]
Line(s) == [kind |-> "line", text |-> s]
TapeLine(t, p) == [kind |-> "tape", cells |-> t, head |-> p]

\* Mutant: the byte is put in front of what was written before.
StepOutput_front ==
    /\ At("Output")
    /\ Len(stdout) < MaxOut
    /\ stdout' = <<Byte(Cell)>> \o stdout
    /\ Advance
    /\ UNCHANGED <<built, input, inpos, tape_pointer, tape, printing_level,
                   markers, executed>>

StepOutput ==
    /\ At("Output")
    /\ Len(stdout) < MaxOut
    /\ stdout' = Append(stdout, Byte(Cell))
    /\ Advance
    /\ UNCHANGED <<built, input, inpos, tape_pointer, tape, printing_level,
                   markers, executed>>

\* write_all fails: run returns the error.
StepOutputError ==
    /\ At("Output")
    /\ pc' = "io_error"
    /\ error' = "output"
    /\ UNCHANGED <<built, machine>>

\* self.program.pairs.get(&self.instruction_pointer)
pairs_get(prs, k) == IF k \in DOMAIN prs THEN prs[k] ELSE None

\* Mutant: a skipped loop resumes on its `]`, not past it.
StepStart_onto_end ==
    /\ At("Start")
    /\ IF Cell = 0
       THEN LET matching == pairs_get(pairs, instruction_pointer) IN
            IF matching = None
            THEN /\ Panic("called Option::unwrap() on a None value")
                 /\ UNCHANGED instruction_pointer
            ELSE AdvanceFrom(matching - 1)
       ELSE Advance
    /\ UNCHANGED <<built, input, inpos, stdout, tape_pointer, tape,
                   printing_level, markers, executed>>

StepStart ==
    /\ At("Start")
    /\ IF Cell = 0
       THEN LET matching == pairs_get(pairs, instruction_pointer) IN
            IF matching = None
            THEN /\ Panic("called Option::unwrap() on a None value")
                 /\ UNCHANGED instruction_pointer
            ELSE AdvanceFrom(matching)
       ELSE Advance
    /\ UNCHANGED <<built, input, inpos, stdout, tape_pointer, tape,
                   printing_level, markers, executed>>

StepEnd ==
    /\ At("End")
    /\ IF Cell # 0
       THEN LET matching == pairs_get(pairs, instruction_pointer) IN
            IF matching = None
            THEN /\ Panic("called Option::unwrap() on a None value")
                 /\ UNCHANGED instruction_pointer
            ELSE AdvanceFrom(matching)
       ELSE Advance
    /\ UNCHANGED <<built, input, inpos, stdout, tape_pointer, tape,
                   printing_level, markers, executed>>

\* The panic message of assert_eq!(left, right, "{why}..."): it names the
\* reason and both values.
assert_eq_message(left, right, why) ==
    "assertion left == right failed: " \o why
       \o ", left: " \o ToString(left) \o ", right: " \o ToString(right)

\* Mutant: the assertion passes wherever the head is at or beyond the cell.
StepAssertPosition_at_least ==
    /\ AtKind("AssertPosition")
    /\ IF tape_pointer < Current.desired
       THEN /\ Panic(assert_eq_message(tape_pointer, Current.desired,
                                      Current.why))
            /\ UNCHANGED instruction_pointer
       ELSE Advance
    /\ UNCHANGED <<built, input, inpos, stdout, tape_pointer, tape,
                   printing_level, markers, executed>>

StepAssertPosition ==
    /\ AtKind("AssertPosition")
    /\ IF tape_pointer # Current.desired
       THEN /\ Panic(assert_eq_message(tape_pointer, Current.desired,
                                      Current.why))
            /\ UNCHANGED instruction_pointer
       ELSE Advance
    /\ UNCHANGED <<built, input, inpos, stdout, tape_pointer, tape,
                   printing_level, markers, executed>>

\* Mutant of Printed: the level alone decides, threshold set or not.
Printed_unset(level, min_level) == level >= min_level

\* The comment is printed: a threshold is set and the level reaches it.
Printed(level, min_level) == min_level # None /\ level >= min_level

StepComment ==
    /\ AtKind("Comment")
    /\ IF Printed(Current.level, printing_level)
       THEN /\ Len(stdout) < MaxOut
            /\ stdout' = Append(stdout, Line(Current.text))
       ELSE stdout' = stdout
    /\ Advance
    /\ UNCHANGED <<built, input, inpos, tape_pointer, tape, printing_level,
                   markers, executed>>

\* EndComment closes a comment for the printer; run passes over it.
StepEndComment ==
    /\ AtKind("EndComment")
    /\ Advance
    /\ UNCHANGED <<built, input, inpos, stdout, tape_pointer, tape,
                   printing_level, markers, executed>>

StepIndent ==
    /\ AtKind("Indent")
    /\ Advance
    /\ UNCHANGED <<built, input, inpos, stdout, tape_pointer, tape,
                   printing_level, markers, executed>>

StepPrintTape ==
    /\ AtKind("PrintTape")
    /\ Len(stdout) < MaxOut
    /\ stdout' = Append(stdout, TapeLine(tape, tape_pointer))
    /\ Advance
    /\ UNCHANGED <<built, input, inpos, tape_pointer, tape, printing_level,
                   markers, executed>>

\* HashMap::insert returns the old value; HashMap::remove the removed one.
markers_get(m, name) == IF name \in DOMAIN m THEN m[name] ELSE None
markers_insert(m, name, at) == (name :> at) @@ m
\* Mutant of markers_remove: every entry goes.
markers_remove_all(m, name) == [k \in {} |-> 0]

markers_remove(m, name) == [k \in DOMAIN m \ {name} |-> m[k]]

\* Mutant: a marker placed twice is moved.
StepPlaceMarker_moved ==
    /\ AtKind("PlaceMarker")
    /\ markers' = markers_insert(markers, Current.name, tape_pointer)
    /\ Advance
    /\ UNCHANGED <<built, input, inpos, stdout, tape_pointer, tape,
                   printing_level, executed>>

StepPlaceMarker ==
    /\ AtKind("PlaceMarker")
    /\ LET old == markers_get(markers, Current.name) IN
       /\ markers' = markers_insert(markers, Current.name, tape_pointer)
       /\ IF old # None
          THEN /\ Panic("marker already exists")
               /\ UNCHANGED instruction_pointer
          ELSE Advance
    /\ UNCHANGED <<built, input, inpos, stdout, tape_pointer, tape,
                   printing_level, executed>>

\* Mutant: removing a marker that is not there is not checked.
StepRemoveMarker_unchecked ==
    /\ AtKind("RemoveMarker")
    /\ markers' = markers_remove(markers, Current.name)
    /\ Advance
    /\ UNCHANGED <<built, input, inpos, stdout, tape_pointer, tape,
                   printing_level, executed>>

StepRemoveMarker ==
    /\ AtKind("RemoveMarker")
    /\ LET old == markers_get(markers, Current.name) IN
       /\ markers' = markers_remove(markers, Current.name)
       /\ IF old = None
          THEN /\ Panic("marker does not exist")
               /\ UNCHANGED instruction_pointer
          ELSE Advance
    /\ UNCHANGED <<built, input, inpos, stdout, tape_pointer, tape,
                   printing_level, executed>>

\* Mutant of usize_sub: the subtraction stops at 0.
usize_sub_saturating(x, y, overflow_checks) ==
    IF x - y >= 0 THEN x - y ELSE 0

\* base - offset.unsigned_abs() on usize: with overflow checks (a debug build)
\* an underflow panics, without them (a release build) it wraps.
usize_sub(x, y, overflow_checks) ==
    IF x - y >= 0 THEN x - y
    ELSE IF overflow_checks THEN None
    ELSE (x - y) % (USIZE_MAX + 1)

StepAssertRelative ==
    /\ AtKind("AssertRelative")
    /\ LET base == markers_get(markers, Current.name) IN
       IF base = None
       THEN /\ Panic("marker does not exist")
            /\ UNCHANGED instruction_pointer
       ELSE \E overflow_checks \in BOOLEAN :
            LET expected ==
                    IF Current.offset >= 0
                    THEN base + Current.offset
                    ELSE usize_sub(base, unsigned_abs(Current.offset),
                                   overflow_checks)
            IN  IF expected = None
                THEN /\ Panic("attempt to subtract with overflow")
                     /\ UNCHANGED instruction_pointer
                ELSE IF tape_pointer # expected
                THEN /\ Panic(assert_eq_message(tape_pointer, expected,
                                               Current.comment))
                     /\ UNCHANGED instruction_pointer
                ELSE Advance
    /\ UNCHANGED <<built, input, inpos, stdout, tape_pointer, tape,
                   printing_level, markers, executed>>

\* Mutant of Finish: the loop breaks on the last action.
Finish_early ==
    /\ pc = "running"
    /\ instruction_pointer + 1 >= Len(instructions)
    /\ pc' = "done"
    /\ UNCHANGED <<built, error, machine>>

\* The loop breaks at the end of the program and run returns Ok(()).
Finish ==
    /\ pc = "running"
    /\ instruction_pointer >= Len(instructions)
    /\ pc' = "done"
    /\ UNCHANGED <<built, error, machine>>

Step ==
    \/ StepLeft \/ StepRight \/ StepInc \/ StepDec
    \/ StepInput \/ StepInputError \/ StepOutput \/ StepOutputError
    \/ StepStart \/ StepEnd
    \/ StepAssertPosition \/ StepComment \/ StepEndComment \/ StepIndent
    \/ StepPrintTape
    \/ StepPlaceMarker \/ StepRemoveMarker \/ StepAssertRelative

Next ==
    \/ Parse \/ Lower \/ Link \/ AsTextClean
    \/ NewInterpreter \/ SetPrintLevel \/ Run
    \/ Step
    \/ Finish

Spec == Init /\ [][Next]_vars

----------------------------------------------------------------------------
(* The helpers run alone: the interpreter is made for the program of one   *)
(* helper on an empty input, as Interpreter::new leaves it, and run. The   *)
(* tree was consumed by build(): the interpreter holds the program only.   *)

InterpreterFor(items) ==
    /\ pc = "new"
    /\ text = NoText
    /\ item = NoItem
    /\ \E it \in items : instructions = Buildable_build(it)
    /\ pairs = Program_build(instructions).pairs
    /\ rendered = NotRendered
    /\ error = ""
    /\ input = <<>>
    /\ inpos = 0
    /\ stdout = <<>>
    /\ instruction_pointer = 0
    /\ tape_pointer = 0
    /\ tape = <<0>>
    /\ printing_level = None
    /\ markers = NoMarkers
    /\ executed = 0

\* drain, zero_check, find_non_zero_cell_right and display_decimal. The arms
\* of run are those an action of these programs selects.
HelperItems == DrainItems \cup ZeroCheckItems \cup FindItems \cup DisplayItems

HelperInit == InterpreterFor(HelperItems)

HelperNext ==
    \/ Run
    \/ StepLeft \/ StepRight \/ StepInc \/ StepDec
    \/ StepOutput \/ StepOutputError
    \/ StepStart \/ StepEnd
    \/ StepComment \/ StepEndComment
    \/ StepPlaceMarker \/ StepRemoveMarker \/ StepAssertRelative
    \/ Finish

\* run is a loop of one thread: an iteration that can be taken is taken.
Helpers == HelperInit /\ [][HelperNext]_vars /\ WF_vars(HelperNext)

\* divide.
DivisionInit == InterpreterFor(DivideItems)

DivisionNext ==
    \/ Run
    \/ StepLeft \/ StepRight \/ StepInc \/ StepDec
    \/ StepOutput \/ StepOutputError
    \/ StepStart \/ StepEnd
    \/ StepAssertPosition \/ StepComment \/ StepEndComment \/ StepIndent
    \/ StepPlaceMarker \/ StepRemoveMarker \/ StepAssertRelative
    \/ Finish

Division == DivisionInit /\ [][DivisionNext]_vars /\ WF_vars(DivisionNext)

\* operate::<DecimalAdd<8>> as a counter.
CounterInit == InterpreterFor(CounterItems)

CounterNext ==
    \/ Run
    \/ StepLeft \/ StepRight \/ StepInc \/ StepDec
    \/ StepStart \/ StepEnd
    \/ StepAssertPosition \/ StepComment \/ StepIndent
    \/ StepPlaceMarker \/ StepRemoveMarker \/ StepAssertRelative
    \/ Finish

Counter == CounterInit /\ [][CounterNext]_vars /\ WF_vars(CounterNext)

\* The client's program up to output(), and packet_loop_before_check alone
\* with the head brought to PACKET_LOOP_START, each run on a capture file:
\* the first on the whole file, the second on its records.
CaptureProgram == Buildable_build(main_items)
BeforeCheckProgram ==
    Buildable_build(Item_Sequence(<<
        offset_to_insns(Positions.PACKET_LOOP_START),
        packet_loop_before_check>>))

CaptureInit ==
    /\ pc = "new"
    /\ text = NoText
    /\ item = NoItem
    /\ \E smp \in CaptureSamples :
          \/ instructions = CaptureProgram /\ input = CaptureBytes(smp)
          \/ instructions = BeforeCheckProgram /\ input = RecordsOf(smp)
    /\ pairs = Program_build(instructions).pairs
    /\ rendered = NotRendered
    /\ error = ""
    /\ inpos = 0
    /\ stdout = <<>>
    /\ instruction_pointer = 0
    /\ tape_pointer = 0
    /\ tape = <<0>>
    /\ printing_level = None
    /\ markers = NoMarkers
    /\ executed = 0

\* The arms of run an action of these programs selects; every read gives a
\* byte or meets the end of the input.
CaptureNext ==
    \/ Run
    \/ StepLeft \/ StepRight \/ StepInc \/ StepDec
    \/ StepInput
    \/ StepStart \/ StepEnd
    \/ StepAssertPosition \/ StepComment \/ StepEndComment \/ StepIndent
    \/ StepPlaceMarker \/ StepRemoveMarker \/ StepAssertRelative
    \/ Finish

Capture == CaptureInit /\ [][CaptureNext]_vars /\ WF_vars(CaptureNext)

\* append_to_list.
AppendInit == InterpreterFor(AppendItems)

AppendNext ==
    \/ Run
    \/ StepLeft \/ StepRight \/ StepInc \/ StepDec
    \/ StepStart \/ StepEnd
    \/ StepAssertPosition \/ StepComment \/ StepEndComment \/ StepIndent
    \/ StepPlaceMarker \/ StepRemoveMarker \/ StepAssertRelative
    \/ Finish

ListAppend == AppendInit /\ [][AppendNext]_vars /\ WF_vars(AppendNext)

----------------------------------------------------------------------------
(* What the claims speak of, stated apart from the code. *)


\* An Interpreter exists.
Constructed == pc \in {"new", "running", "done", "panic", "io_error"}

Indices == 0..(Len(instructions) - 1)
IsStart(i) == IsInstruction(instructions[i + 1], "Start")
IsEnd(i) == IsInstruction(instructions[i + 1], "End")

\* The number of `[` minus the number of `]` among the indices lo .. hi.
Depth(lo, hi) ==
    Cardinality({k \in lo..hi : IsStart(k)}) - Cardinality({k \in lo..hi : IsEnd(k)})

\* The `]` that closes the `[` at i: the first index past i where the depth
\* counted from i returns to zero; and the `[` that the `]` at j closes.
IsMatching(i, j) ==
    /\ i < j
    /\ IsStart(i)
    /\ IsEnd(j)
    /\ Depth(i, j) = 0
    /\ \A k \in i..(j - 1) : Depth(i, k) > 0

\* Some `]` has no unmatched `[` before it; the first such index.
UnopenedClose == \E j \in Indices : Depth(0, j) < 0
\* No `]` is unopened and some `[` is never closed.
UnclosedOpen == ~UnopenedClose /\ Depth(0, Len(instructions) - 1) > 0
Balanced == ~UnopenedClose /\ Depth(0, Len(instructions) - 1) = 0

\* The same for a text, on its characters.
Count(s, c, n) == Cardinality({k \in 1..n : s[k] = c})
BalancedText(s) ==
    /\ \A n \in 1..Len(s) : Count(s, "[", n) >= Count(s, "]", n)
    /\ Count(s, "[", Len(s)) = Count(s, "]", Len(s))

OverAlphabet(s) == \A k \in 1..Len(s) : s[k] \in Alphabet

----------------------------------------------------------------------------
(* C1: when Program::build succeeds, the pair map links the brackets: its  *)
(* keys are exactly the indices of the `[` and `]` actions; for a `[` at i *)
(* pairs[i] is a j > i holding `]` with pairs[j] = i, and it is the `]`    *)
(* that closes it; symmetrically for every `]`.                            *)
C1_PairsLinkBrackets ==
    pc = "linked" =>
        /\ DOMAIN pairs = {i \in Indices : IsStart(i) \/ IsEnd(i)}
        /\ \A i \in Indices : IsStart(i) =>
              /\ pairs[i] \in Indices
              /\ pairs[i] > i
              /\ IsEnd(pairs[i])
              /\ pairs[pairs[i]] = i
              /\ IsMatching(i, pairs[i])
        /\ \A j \in Indices : IsEnd(j) =>
              /\ pairs[j] \in Indices
              /\ pairs[j] < j
              /\ IsStart(pairs[j])
              /\ pairs[pairs[j]] = j
              /\ IsMatching(pairs[j], j)

\* Nested and consecutive loops have been linked, with an action that is no
\* instruction in front of them.
C1_Witness ==
    /\ pc = "linked"
    /\ Cardinality(DOMAIN pairs) >= 4
    /\ \E i, k \in Indices :
          IsStart(i) /\ IsStart(k) /\ i < k /\ k < pairs[i]
    /\ \E i \in Indices : instructions[i + 1].kind # "Instruction"

\* The outcome of Program::build, with the message the claim gives for an
\* unclosed `[`.
BuildOutcome(unclosed_message) ==
    /\ pc = "link_error" =>
          \/ error = "unopened close" /\ UnopenedClose
          \/ error = unclosed_message /\ UnclosedOpen
    /\ pc = "linked" => Balanced
    /\ (text # NoText /\ OverAlphabet(text)) => pc # "parse_error"
    /\ (text # NoText /\ pc = "parse_error") => ~OverAlphabet(text)
    /\ (text # NoText /\ pc = "linked") => BalancedText(text)
    /\ (text # NoText /\ pc = "link_error") =>
          OverAlphabet(text) /\ ~BalancedText(text)

(* C2, as claimed: the scan returns "unopened close" for a `]` with no     *)
(* unmatched `[` before it, "unclosed open" when it ends with an unmatched *)
(* `[`, and succeeds otherwise; a text over the eight characters parses,   *)
(* and links if and only if it is balanced.                                *)
C2_Claimed == BuildOutcome("unclosed open")

(* C2, amended: the same, the error for an unmatched `[` being             *)
(* "unclosed open[s]".                                                     *)
C2_BuildOutcome == BuildOutcome("unclosed open[s]")

\* A text with an unmatched `[` has been refused, after a pair was matched.
C2_Witness ==
    /\ pc = "link_error"
    /\ error = "unclosed open[s]"
    /\ text # NoText
    /\ \E i \in Indices : IsEnd(i)

(* C3: for a balanced text over the eight characters, as_text_clean of the *)
(* program built from the lowering of its parse is the text itself.        *)
C3_RoundTrip ==
    (rendered # NotRendered /\ text # NoText) => rendered = text

\* A text with a loop and both moves has been rendered.
C3_Witness ==
    /\ rendered # NotRendered
    /\ text # NoText
    /\ rendered = text
    /\ \E k \in 1..Len(text) : text[k] = "["
    /\ \E k \in 1..Len(text) : text[k] = "<"
    /\ \E k \in 1..Len(text) : text[k] = ">"

----------------------------------------------------------------------------
(* The interpreter's steps, as the claims describe them. *)

\* run() is at the action of index instruction_pointer, about to dispatch it.
Dispatching == pc = "running" /\ instruction_pointer < Len(instructions)

\* The dispatch completed and the loop goes on.
Continues == pc' = "running"

MatchingEnd(i) == CHOOSE j \in Indices : IsMatching(i, j)
MatchingStart(j) == CHOOSE i \in Indices : IsMatching(i, j)

\* The text of a scenario has run to the end.
Ran(s) == text = s /\ pc = "done"

\* What C4 says of a step.
C4_Step ==
    /\ (Dispatching /\ Continues) =>
          instruction_pointer' =
             IF At("Start") /\ Cell = 0
             THEN MatchingEnd(instruction_pointer) + 1
             ELSE IF At("End") /\ Cell # 0
             THEN MatchingStart(instruction_pointer) + 1
             ELSE instruction_pointer + 1
    /\ (At("Start") \/ At("End")) =>
          Continues /\ tape' = tape /\ tape_pointer' = tape_pointer

(* C4: Start dispatched on a zero cell is followed by the action after the *)
(* matching End; End dispatched on a nonzero cell by the action after the  *)
(* matching Start; every other dispatch by the action at index + 1.        *)
(* Neither Start nor End fails or changes the tape or the head.            *)
C4_LoopControl == [][C4_Step]_vars

\* `+++[>++<-]>.` has run: its loop body three times, and the byte 6 is out.
C4_Witness ==
    /\ Ran(<<"+", "+", "+", "[", ">", "+", "+", "<", "-", "]", ">", ".">>)
    /\ stdout = <<Byte(6)>>
    /\ tape = <<0, 6>>

\* What C5 says of a step and of a state.
C5_Step ==
    /\ At("Inc") =>
          /\ Continues
          /\ tape' = [tape EXCEPT ![tape_pointer + 1] =
                         IF Cell = 255 THEN 0 ELSE Cell + 1]
          /\ tape_pointer' = tape_pointer
    /\ At("Dec") =>
          /\ Continues
          /\ tape' = [tape EXCEPT ![tape_pointer + 1] =
                         IF Cell = 0 THEN 255 ELSE Cell - 1]
          /\ tape_pointer' = tape_pointer

C5_Scenarios ==
    /\ (item = Item_Repeat(Item_Direct("Inc"), 256) /\ pc = "done") =>
          tape = <<0>>
    /\ Ran(<<"-">>) => tape = <<255>>
    /\ Constructed => \A k \in 1..Len(tape) : tape[k] \in 0..255

(* C5: Inc and Dec are 8-bit wrapping (255 + 1 = 0, 0 - 1 = 255), change   *)
(* the current cell only, never fail; 256 Inc on a fresh tape leave cell 0 *)
(* at 0, one Dec leaves it at 255.                                         *)
C5_CellWrap == [][C5_Step]_vars /\ []C5_Scenarios

\* 256 Inc have run on a fresh tape.
C5_Witness ==
    /\ item = Item_Repeat(Item_Direct("Inc"), 256)
    /\ pc = "done"
    /\ instruction_pointer = 256
    /\ tape = <<0>>

\* What C6 says of a step.
C6_Step ==
    At("Left") =>
        IF tape_pointer = 0
        THEN /\ pc' = "panic"
             /\ UNCHANGED <<machine, built>>
        ELSE /\ Continues
             /\ tape_pointer' = tape_pointer - 1
             /\ instruction_pointer' = instruction_pointer + 1
             /\ UNCHANGED <<tape, input, inpos, stdout, markers,
                            printing_level, executed, built>>

(* C6: the tape index is never negative; Left at index 0 is fatal and does *)
(* not move the head; Left at k > 0 moves the head to k - 1 and changes    *)
(* nothing else.                                                           *)
C6_HeadNotNegative == [][C6_Step]_vars /\ [](tape_pointer >= 0)

\* Left was dispatched at index 0 after the head had moved right and back.
C6_Witness ==
    /\ pc = "panic"
    /\ tape_pointer = 0
    /\ Len(tape) >= 2
    /\ IsInstruction(Current, "Left")

\* What C7 says of a step and of a state.
C7_Step ==
    /\ At("Right") =>
          /\ Continues
          /\ tape_pointer' = tape_pointer + 1
          /\ SubSeq(tape', 1, Len(tape)) = tape
          /\ \A k \in (Len(tape) + 1)..Len(tape') : tape'[k] = 0
    /\ Constructed => Len(tape') >= Len(tape)

C7_State ==
    /\ Constructed => tape_pointer < Len(tape)
    /\ Ran(<<">", ">", ">", "[", "-", "]">>) =>
          Len(tape) >= 4 /\ tape_pointer = 3 /\ tape[4] = 0

(* C7: the head is always inside the tape; Right moves it one cell right,  *)
(* growing the tape with zero cells when it would leave it; the tape never *)
(* shrinks and growth alters no cell; `>>>[-]` ends with length >= 4, the  *)
(* head at 3 and cell 3 = 0.                                               *)
C7_HeadInsideTape == [][C7_Step]_vars /\ []C7_State

\* `>>>[-]` has run.
C7_Witness ==
    /\ Ran(<<">", ">", ">", "[", "-", "]">>)
    /\ tape = <<0, 0, 0, 0>>
    /\ tape_pointer = 3

\* What C8 says of a step and of a state.
C8_Step ==
    /\ (At("Input") /\ Continues) =>
          /\ tape' = [tape EXCEPT ![tape_pointer + 1] =
                         IF executed + 1 <= Len(input)
                         THEN input[executed + 1] ELSE 0]
          /\ tape_pointer' = tape_pointer
          /\ executed' = executed + 1
          /\ instruction_pointer' = instruction_pointer + 1
    /\ At("Input") => pc' \in {"running", "io_error"}
    /\ (At("Input") /\ ~Continues) => UNCHANGED <<machine, built>>
    /\ (Constructed /\ ~At("Input")) =>
          UNCHANGED <<input, inpos, executed>>

C8_State ==
    Constructed =>
        inpos = IF executed <= Len(input) THEN executed ELSE Len(input)

(* C8: the k-th Input that reads sets the current cell to the k-th byte of *)
(* the input, or to 0 when the input has fewer than k bytes, and the run   *)
(* goes on; it changes no other cell and not the head; nothing but Input   *)
(* consumes input.                                                         *)
C8_InputInOrder == [][C8_Step]_vars /\ []C8_State

\* `,.,.,.` has run on the input <<65>>: one byte read, then end of input twice.
C8_Witness ==
    /\ Ran(<<",", ".", ",", ".", ",", ".">>)
    /\ input = <<65>>
    /\ executed = 3
    /\ stdout = <<Byte(65), Byte(0), Byte(0)>>

IsByte(e) == e.kind = "byte"
\* The bytes the Output actions wrote, in the order standard output has them.
Written(out) == SelectSeq(out, IsByte)

IsPrefix(s, t) == Len(s) <= Len(t) /\ SubSeq(t, 1, Len(s)) = s

\* What C9 says of a step.
C9_Step ==
    /\ (At("Output") /\ Continues) =>
          /\ stdout' = Append(stdout, Byte(Cell))
          /\ tape' = tape
          /\ tape_pointer' = tape_pointer
    /\ (At("Output") /\ ~Continues) =>
          pc' = "io_error" /\ UNCHANGED <<machine, built>>
    /\ IsPrefix(stdout, stdout')
    /\ ~At("Output") => Written(stdout') = Written(stdout)

(* C9: each Output appends the current cell's byte to what was written,    *)
(* and changes neither tape nor head; no other action writes, drops or     *)
(* reorders a byte.                                                        *)
C9_OutputInOrder == [][C9_Step]_vars

\* `,[.,]` has run on HELLO and a zero byte.
C9_Witness ==
    /\ Ran(<<",", "[", ".", ",", "]">>)
    /\ input = <<72, 69, 76, 76, 79, 0>>
    /\ stdout = <<Byte(72), Byte(69), Byte(76), Byte(76), Byte(79)>>

\* The action about to be dispatched fails a check.
FailsCheck ==
    \/ At("Left") /\ tape_pointer = 0
    \/ AtKind("AssertPosition") /\ tape_pointer # Current.desired
    \/ AtKind("AssertRelative") /\ Current.name \notin DOMAIN markers
    \/ /\ AtKind("AssertRelative")
       /\ Current.name \in DOMAIN markers
       /\ tape_pointer # markers[Current.name] + Current.offset
    \/ AtKind("PlaceMarker") /\ Current.name \in DOMAIN markers
    \/ AtKind("RemoveMarker") /\ Current.name \notin DOMAIN markers

\* What C10 says of a step.
C10_Step ==
    /\ FailsCheck =>
          /\ pc' = "panic"
          /\ UNCHANGED <<stdout, inpos, executed, instruction_pointer, tape,
                         tape_pointer>>
    /\ pc = "panic" => UNCHANGED vars

(* C10: a failed check (Left at index 0, a failed assertion, a duplicate   *)
(* marker, the removal of a missing marker) ends the run: nothing is       *)
(* dispatched after it, no byte written or consumed, and run does not      *)
(* return success.                                                         *)
C10_FailedCheckEndsRun == [][C10_Step]_vars

\* A check failed with an Input and an Output still ahead in the program.
C10_Witness ==
    /\ pc = "panic"
    /\ \E k \in (instruction_pointer + 2)..Len(instructions) :
          IsInstruction(instructions[k], "Output")
    /\ \E k \in (instruction_pointer + 2)..Len(instructions) :
          IsInstruction(instructions[k], "Input")
    /\ Current.kind = "RemoveMarker"
    /\ executed = 1

----------------------------------------------------------------------------
(* Assertions and markers. *)

\* What C11 says of a step.
C11_Step ==
    AtKind("AssertPosition") =>
       IF tape_pointer = Current.desired
       THEN /\ pc' = "running"
            /\ instruction_pointer' = instruction_pointer + 1
            /\ UNCHANGED <<tape, tape_pointer, markers, stdout, inpos>>
       ELSE /\ pc' = "panic"
            /\ error' = assert_eq_message(tape_pointer, Current.desired,
                                          Current.why)

RightAssert(cell) ==
    Item_Sequence(<<Item_Direct("Right"), Item_AssertPosition(cell, "one")>>)

\* Sequence([Right, AssertAbsolute(1)]) succeeds; with AssertAbsolute(0) the
\* run fails, reporting the head 1 and the asserted cell 0.
C11_Scenarios ==
    /\ (item = RightAssert(1) /\ pc \in {"done", "panic"}) => pc = "done"
    /\ (Constructed /\ instruction_pointer >= 1
          /\ instructions = Buildable_build(RightAssert(0)) \o <<Instruction("Output")>>)
          => /\ pc \in {"running", "panic"}
             /\ instruction_pointer = 1
             /\ pc = "panic" =>
                   error = "assertion left == right failed: one, left: 1, right: 0"

(* C11: AssertPosition(pos, why) is fatal exactly when the head is not at  *)
(* pos; when it is, nothing changes and the next action is dispatched.     *)
(* Right, AssertPosition(1) on a fresh tape succeeds; Right,               *)
(* AssertPosition(0) fails reporting the asserted 0 and the actual 1.      *)
C11_AssertAbsolute == [][C11_Step]_vars /\ []C11_Scenarios

\* Right, AssertPosition(0) has failed with the head on cell 1.
C11_Witness ==
    /\ pc = "panic"
    /\ Current = AssertPosition(0, "one")
    /\ tape_pointer = 1
    /\ error = assert_eq_message(1, 0, "one")

\* What C12 says of a step: the expected cell is the signed sum.
C12_Step ==
    AtKind("AssertRelative") =>
       IF \/ Current.name \notin DOMAIN markers
          \/ tape_pointer # markers[Current.name] + Current.offset
       THEN pc' = "panic" /\ UNCHANGED <<tape, tape_pointer, markers>>
       ELSE /\ pc' = "running"
            /\ instruction_pointer' = instruction_pointer + 1
            /\ UNCHANGED <<tape, tape_pointer, markers, stdout, inpos>>

(* C12: AssertRelative(name, offset, why) is fatal if the marker is absent *)
(* or the head is not at the marker's cell plus the offset, as a signed    *)
(* sum: a negative offset reaching before cell 0 is fatal, never matched   *)
(* by a wrapped value; otherwise nothing changes and the run goes on.      *)
C12_AssertMarkerOffset == [][C12_Step]_vars

\* The assertion one cell left of a marker on cell 0 has failed.
C12_Witness ==
    /\ pc = "panic"
    /\ Current.kind = "AssertRelative"
    /\ Current.name \in DOMAIN markers
    /\ markers[Current.name] + Current.offset < 0

\* What C13 says of a step.
C13_Step ==
    AtKind("PlaceMarker") =>
       IF Current.name \notin DOMAIN markers
       THEN /\ pc' = "running"
            /\ instruction_pointer' = instruction_pointer + 1
            /\ DOMAIN markers' = DOMAIN markers \cup {Current.name}
            /\ markers'[Current.name] = tape_pointer
            /\ \A n \in DOMAIN markers : markers'[n] = markers[n]
            /\ UNCHANGED <<tape, tape_pointer, stdout, inpos>>
       ELSE pc' = "panic" /\ UNCHANGED <<tape, tape_pointer, stdout, inpos>>

\* A marker that is live stays where it was placed until it is removed.
C13_OnePlacement ==
    \A n \in DOMAIN markers :
       (pc' = "running" /\ n \in DOMAIN markers') => markers'[n] = markers[n]

(* C13: PlaceMarker(name) with name not in the marker map records name at  *)
(* the head's cell and changes nothing else; with name already in the map  *)
(* it is fatal. A name never has two live placements: a live marker keeps  *)
(* its cell until it is removed.                                           *)
C13_MarkerPlace == [][C13_Step /\ C13_OnePlacement]_vars

\* The second AddMarker("m") has failed, after a Right.
C13_Witness ==
    /\ pc = "panic"
    /\ Current = PlaceMarker("m")
    /\ tape_pointer = 1
    /\ error = "marker already exists"

\* What C14 says of a step.
C14_Step ==
    AtKind("RemoveMarker") =>
       IF Current.name \in DOMAIN markers
       THEN /\ pc' = "running"
            /\ instruction_pointer' = instruction_pointer + 1
            /\ DOMAIN markers' = DOMAIN markers \ {Current.name}
            /\ \A n \in DOMAIN markers' : markers'[n] = markers[n]
            /\ UNCHANGED <<tape, tape_pointer, stdout, inpos>>
       ELSE pc' = "panic" /\ UNCHANGED <<tape, tape_pointer, stdout, inpos>>

(* C14: RemoveMarker(name) with name in the marker map deletes that entry  *)
(* and nothing else: the other markers, the tape and the head stay; with   *)
(* name not in the map it is fatal.                                        *)
C14_MarkerRemove == [][C14_Step]_vars

\* "m" has just been removed and "n" is still placed, on cell 1.
C14_Witness ==
    /\ pc = "running"
    /\ instruction_pointer >= 1
    /\ instructions[instruction_pointer] = RemoveMarker("m")
    /\ DOMAIN markers = {"n"}
    /\ markers["n"] = 1

----------------------------------------------------------------------------
(* Parsing and lowering. *)

(* C15: Item::parse accepts exactly the texts over the eight characters:   *)
(* for such a text it returns a Sequence of one Direct per character, in   *)
(* order; a text holding any other byte, whitespace included, is a parse   *)
(* error, and the byte is not skipped.                                     *)
C15_ParseStrict ==
    (text # NoText /\ pc # "source") =>
       IF OverAlphabet(text)
       THEN /\ pc # "parse_error"
            /\ item.kind = "Sequence"
            /\ Len(item.items) = Len(text)
            /\ \A k \in 1..Len(text) :
                  /\ item.items[k].kind = "Direct"
                  /\ as_char(item.items[k].ins) = text[k]
       ELSE /\ pc = "parse_error"
            /\ item = NoItem
            /\ error = "unknown byte"

\* `+ -`, with a space between two instructions, was refused.
C15_Witness ==
    /\ pc = "parse_error"
    /\ text = <<"+", " ", "-">>

\* The items of a tree: the tree, and the items of its children.
RECURSIVE SubItems(_)
SubItems(it) ==
    {it} \cup
    CASE it.kind = "Sequence" ->
            UNION {SubItems(it.items[k]) : k \in DOMAIN it.items}
      [] it.kind = "Loop" -> UNION {SubItems(it.body[k]) : k \in DOMAIN it.body}
      [] it.kind = "Repeat" -> SubItems(it.item)
      [] OTHER -> {}

\* The length of the first k of these lists together.
RECURSIVE LenUpTo(_, _)
LenUpTo(parts, k) == IF k = 0 THEN 0 ELSE LenUpTo(parts, k - 1) + Len(parts[k])

\* ys is the lists of parts one after the other.
IsConcat(ys, parts) ==
    /\ Len(ys) = LenUpTo(parts, Len(parts))
    /\ \A k \in DOMAIN parts :
          SubSeq(ys, LenUpTo(parts, k - 1) + 1, LenUpTo(parts, k)) = parts[k]

\* ys is n copies of xs.
IsReplicated(ys, xs, n) ==
    /\ Len(ys) = n * Len(xs)
    /\ \A j \in 0..(n - 1) : SubSeq(ys, j * Len(xs) + 1, (j + 1) * Len(xs)) = xs

(* C16: the lowering of a Sequence is the lowerings of its items one after *)
(* the other, and the lowering of Repeat(x, n) is n copies of the lowering *)
(* of x, nothing for n = 0; also for the Sequences and Repeats nested in   *)
(* Sequences, Repeats and Loops.                                           *)
C16_LoweringFlattens ==
    (pc = "lowered" /\ item # NoItem) =>
       \A it \in SubItems(item) :
          LET lower(x) == IF x = item THEN instructions ELSE Buildable_build(x)
          IN  /\ it.kind = "Sequence" =>
                    IsConcat(lower(it),
                             [k \in DOMAIN it.items |-> lower(it.items[k])])
              /\ it.kind = "Repeat" =>
                    IsReplicated(lower(it), lower(it.item), it.n)

\* A Repeat of a Sequence holding a Loop and Repeats, one of them of 0, is
\* lowered.
C16_Witness ==
    /\ pc = "lowered"
    /\ item.kind = "Repeat"
    /\ item.n = 2
    /\ \E it \in SubItems(item) : it.kind = "Repeat" /\ it.n = 0
    /\ \E it \in SubItems(item) : it.kind = "Loop"
    /\ Len(instructions) = 12

----------------------------------------------------------------------------
(* The numeric macros. *)

Final == pc \in {"done", "panic"}

\* The run ended on the depth guard of operate_level.
GuardFailed ==
    /\ pc = "panic"
    /\ Current = AssertPosition(USIZE_MAX, "arithmetic overflow")

\* The sample a numeric program was made from.
SampleOf ==
    [it \in NumericItems |-> CHOOSE smp \in NumericSamples : NumericItem(smp) = it]

\* A run of a numeric program has ended.
NumericRunEnded == Final /\ item \in NumericItems

Width(smp) == smp.ops[1].WIDTH

\* The cells of the number and the two scratch cells of a sample.
DigitIndices(smp) == (smp.head - Width(smp) + 1)..smp.head
ScratchIndices(smp) ==
    {smp.head + smp.scratch_offset, smp.head + smp.scratch_offset + 1}

\* The cell the program first writes at an index.
Written0(smp, c) == IF c < Len(smp.cells) THEN smp.cells[c + 1] ELSE 0

\* The scratch cells are apart from the digits, and the cell right of the
\* least significant digit is zero or the first scratch cell.
WellLaidOut(smp) ==
    /\ ScratchIndices(smp) \cap DigitIndices(smp) = {}
    /\ \A c \in ScratchIndices(smp) \cup DigitIndices(smp) : c >= 0
    /\ \/ Written0(smp, smp.head + 1) = 0
       \/ smp.scratch_offset = 1

(* C17: for ByteAdd, ByteSub, DecimalAdd and DecimalSub, on a tape whose   *)
(* scratch cells are apart from the digit cells and whose cell right of    *)
(* the least significant digit is zero or the first scratch cell, operate  *)
(* that does not hit the overflow guard fails none of its position         *)
(* assertions and ends with the head on the cell it started on.            *)
C17_HeadRestored ==
    NumericRunEnded =>
       LET smp == SampleOf[item] IN
       WellLaidOut(smp) =>
          IF pc = "panic" THEN GuardFailed ELSE tape_pointer = smp.head

\* ByteAdd<2> has carried from the low cell into the high one, the scratch
\* cells left of the number, and the head is back on the low cell.
C17_Witness ==
    /\ pc = "done"
    /\ item = NumericItem(ScratchLeft(<<ByteAdd(2)>>, <<9, 255>>))
    /\ tape_pointer = 3
    /\ tape[3] = 10
    /\ tape[4] = 0

\* The digit cells of a sample as first written, and as they are now.
StoredCells(smp) == [k \in 1..Width(smp) |-> smp.cells[smp.head - Width(smp) + 1 + k]]
DigitCellsNow(smp) == [k \in 1..Width(smp) |-> tape[smp.head - Width(smp) + 1 + k]]

ScratchZero(smp) == \A c \in ScratchIndices(smp) : Written0(smp, c) = 0

\* Cells holding decimal digits, the digit d kept as the byte d + bias.
Decode(cells, bias) == [k \in DOMAIN cells |-> (cells[k] - bias + U8) % U8]
IsNumber(cells, bias) == \A k \in DOMAIN cells : Decode(cells, bias)[k] \in 0..9

\* The number of a sequence of decimal digits, most significant first.
RECURSIVE ValueOf(_)
ValueOf(ds) ==
    IF ds = <<>> THEN 0
    ELSE 10 * ValueOf(SubSeq(ds, 1, Len(ds) - 1)) + ds[Len(ds)]

DigitsOf(v, W) == [k \in 1..W |-> (v \div (10 ^ (W - k))) % 10]

\* operate::<DecimalAdd<W>> on a number whose digit d is the byte d + bias.
DecimalIncrement(bias, laid_out) ==
    NumericRunEnded =>
       LET smp == SampleOf[item] IN
          ( /\ smp.ops = <<DecimalAdd(Width(smp))>>
            /\ IsNumber(StoredCells(smp), bias)
            /\ ScratchZero(smp)
            /\ laid_out => WellLaidOut(smp) ) =>
             LET v == ValueOf(Decode(StoredCells(smp), bias)) IN
             IF v = 10 ^ Width(smp) - 1
             THEN GuardFailed
             ELSE /\ pc = "done"
                  /\ tape_pointer = smp.head
                  /\ Decode(DigitCellsNow(smp), bias) = DigitsOf(v + 1, Width(smp))

(* C18, as claimed: with a W-digit decimal number one digit per cell, the  *)
(* head on the least significant digit and two zero scratch cells,         *)
(* operate::<DecimalAdd<W>> leaves the head where it was and the number    *)
(* one larger, except for 10^W - 1, where it fails with "arithmetic        *)
(* overflow".                                                              *)
C18_Claimed == DecimalIncrement(0, FALSE)

(* C18, amended: the same for a number whose digit d is kept in its cell   *)
(* as the byte 246 + d, the scratch cells apart from the digits and the    *)
(* cell right of the head zero or the first scratch cell.                  *)
C18_DecimalIncrement == DecimalIncrement(246, TRUE)

\* 09, kept as the bytes 246 and 255, has become 10, the bytes 247 and 246.
C18_Witness ==
    /\ pc = "done"
    /\ item = NumericItem(ScratchRight(<<DecimalAdd(2)>>, <<246, 255>>))
    /\ tape = <<247, 246, 0, 0>>
    /\ tape_pointer = 1

\* The depth guard is the action about to be dispatched.
AtGuard ==
    /\ AtKind("AssertPosition")
    /\ Current = AssertPosition(USIZE_MAX, "arithmetic overflow")

\* The operation carries, or borrows, out of this cell: an addition out of
\* the cell's last value, a subtraction out of 0.
CarriesOut(N, cell) ==
    cell = IF N.NAME \in {"add", "decimal add"} THEN U8 - 1 ELSE 0

\* The carry goes through every digit cell, past the most significant one.
Overflows(smp) ==
    \A k \in 1..Width(smp) : CarriesOut(smp.ops[1], StoredCells(smp)[k])

C19_Step ==
    AtGuard =>
       /\ pc' = "panic"
       /\ error' = assert_eq_message(tape_pointer, USIZE_MAX,
                                     "arithmetic overflow")

C19_State ==
    ((Final \/ AtGuard) /\ item \in NumericItems) =>
       LET smp == SampleOf[item] IN
          Len(smp.ops) = 1 =>
             /\ AtGuard => Overflows(smp)
             /\ Final => (GuardFailed <=> Overflows(smp))
             /\ Final => (pc = "done" <=> ~Overflows(smp))

(* C19: when the carry or borrow goes past the most significant digit of   *)
(* the W-digit number, the depth guard AssertPosition(usize::MAX,          *)
(* "arithmetic overflow") is dispatched and fails: the run ends with that  *)
(* message and operate does not complete; the guard is dispatched in no    *)
(* other case.                                                             *)
C19_OverflowIsFatal == [][C19_Step]_vars /\ []C19_State

\* ByteSub<2> on 0, 0 has borrowed past the high cell and failed on the guard.
C19_Witness ==
    /\ GuardFailed
    /\ item = NumericItem(ScratchRight(<<ByteSub(2)>>, <<0, 0>>))
    /\ error = assert_eq_message(tape_pointer, USIZE_MAX, "arithmetic overflow")
    /\ DOMAIN markers = {"operation sub", "operation sub level 1",
                         "operation sub level 2"}

\* DecimalAdd then DecimalSub, and DecimalSub then DecimalAdd, on decimal
\* digit cells: the second order for the values `subtrahends` allows.
AddSubRoundTrip(subtrahends(_)) ==
    NumericRunEnded =>
          LET smp == SampleOf[item]
              W == Width(smp)
              v == ValueOf(StoredCells(smp))
          IN  ( /\ Len(smp.ops) = 2
                /\ IsNumber(StoredCells(smp), 0)
                /\ \/ smp.ops = <<DecimalAdd(W), DecimalSub(W)>>
                   \/ smp.ops = <<DecimalSub(W), DecimalAdd(W)>> /\ subtrahends(v) ) =>
                 /\ pc = "done"
                 /\ tape_pointer = smp.head
                 /\ DigitCellsNow(smp) = StoredCells(smp)

AtLeastOne(v) == v >= 1
NotEndingIn0(v) == v % 10 # 0

(* C20, as claimed: on W decimal digit cells holding v in [0, 10^W),       *)
(* DecimalAdd<W> then DecimalSub<W> restores the digit cells and the head, *)
(* and DecimalSub<W> then DecimalAdd<W> does the same for every v >= 1.    *)
C20_Claimed == AddSubRoundTrip(AtLeastOne)

(* C20, amended: DecimalSub<W> then DecimalAdd<W> restores the digit cells *)
(* and the head for every v whose least significant digit is not 0.        *)
C20_AddSubRoundTrip == AddSubRoundTrip(NotEndingIn0)

\* 99 was incremented and then decremented: the cells hold 9, 9 again.
C20_Witness ==
    /\ pc = "done"
    /\ item = NumericItem(ScratchRight(<<DecimalAdd(2), DecimalSub(2)>>, <<9, 9>>))
    /\ tape = <<9, 9, 0, 0>>
    /\ tape_pointer = 1

----------------------------------------------------------------------------
(* The helpers of the client. *)

\* The sample a counter program was made from.
CounterOf ==
    CHOOSE smp \in CounterSamples : Buildable_build(CounterItem(smp)) = instructions

CounterRunEnded == Final /\ \E it \in CounterItems : Buildable_build(it) = instructions

\* The digit cells of a counter as they are now.
CounterCellsNow(smp) == [k \in 1..smp.width |-> tape[k]]

\* operate::<DecimalAdd<8>> 42 times on a counter at zero whose digit d is
\* the byte d + bias: the cells read 42.
Counted(bias) ==
    CounterRunEnded =>
       LET smp == CounterOf IN
       smp.zero = bias =>
          /\ pc = "done"
          /\ tape_pointer = smp.head
          /\ Decode(CounterCellsNow(smp), bias) = DigitsOf(smp.adds, smp.width)
          /\ IsNumber(CounterCellsNow(smp), bias)

(* C21, as claimed: from eight digit cells holding 0, 0, 0, 0, 0, 0, 0, 0  *)
(* operate::<DecimalAdd<8>> 42 times leaves the cells holding 0, 0, 0, 0,  *)
(* 0, 0, 4, 2 and the head where it started.                               *)
C21_Claimed == Counted(0)

(* C21, amended: from eight digit cells each holding the byte 246, the     *)
(* digit 0, operate::<DecimalAdd<8>> 42 times leaves the cells holding the *)
(* bytes 246 + d of the digits 0, 0, 0, 0, 0, 0, 4, 2 and the head where   *)
(* it started.                                                             *)
C21_Counted == Counted(246)

\* The counter of bytes 246 has counted to 42: its last cells hold 250, 248.
C21_Witness ==
    /\ CounterRunEnded
    /\ pc = "done"
    /\ CounterOf.zero = 246
    /\ tape_pointer = 7
    /\ SubSeq(tape, 1, 8) = <<246, 246, 246, 246, 246, 246, 250, 248>>

\* The sample a drain program was made from.
IsDrainRun ==
    \E smp \in DrainSamples : Buildable_build(DrainItem(smp)) = instructions

DrainOf ==
    CHOOSE smp \in DrainSamples : Buildable_build(DrainItem(smp)) = instructions

\* The cells drain visits: the head after each of its moves.
Visits(smp) ==
    [k \in 1..Len(smp.offsets) |-> smp.head + delta_of(SubSeq(smp.offsets, 1, k))]

TimesVisited(smp, c) ==
    Cardinality({k \in 1..Len(smp.offsets) : Visits(smp)[k] = c})

\* No visit lands on the source cell or left of cell 0.
VisitsElsewhere(smp) ==
    \A k \in 1..Len(smp.offsets) :
       Visits(smp)[k] # smp.head /\ Visits(smp)[k] >= 0

AnyVisits(smp) == TRUE

\* What drain is to leave in cell c.
Drained(smp, c) ==
    IF c = smp.head THEN 0
    ELSE IF smp.add
    THEN (Written0(smp, c) + smp.v * TimesVisited(smp, c)) % U8
    ELSE (Written0(smp, c) + (U8 - smp.v) * TimesVisited(smp, c)) % U8

\* A run of drain that ended, ended at the end of the program with the
\* source cell 0, each target changed by v per visit and no other change.
DrainEffect(suitable(_)) ==
    (Final /\ IsDrainRun) =>
       LET smp == DrainOf IN
       suitable(smp) =>
          /\ pc = "done"
          /\ \A c \in 0..(Len(tape) - 1) : tape[c + 1] = Drained(smp, c)

DrainStarted(suitable(_)) ==
    pc = "new" /\ IsDrainRun /\ suitable(DrainOf)

(* C22, as claimed: drain(offsets, add) run with the head on a cell        *)
(* holding v terminates with that cell 0, every target cell changed by v   *)
(* modulo 256 per visit (increased when add, decreased when not) and no    *)
(* other cell changed.                                                     *)
C22_Claimed ==
    /\ [](DrainEffect(AnyVisits))
    /\ DrainStarted(AnyVisits) ~> (pc = "done")

(* C22, amended: the same when no visit of drain lands on the source cell  *)
(* or left of cell 0.                                                      *)
C22_Drain ==
    /\ [](DrainEffect(VisitsElsewhere))
    /\ DrainStarted(VisitsElsewhere) ~> (pc = "done")

\* 255 was drained off cell 2 onto cell 3 twice and cell 4 once, all three
\* holding 254 before.
C22_Witness ==
    /\ pc = "done"
    /\ instructions = Buildable_build(DrainItem(
           [offsets |-> <<1, 1, -1>>, add |-> TRUE, v |-> 255, head |-> 2,
            cells |-> <<254, 254, 255, 254, 254>>]))
    /\ tape = <<254, 254, 0, 252, 253>>

\* drain has finished with the head on the cell `at` names.
DrainLeavesHead(at(_)) ==
    (pc = "done" /\ IsDrainRun) => tape_pointer = at(DrainOf)

LastVisited(smp) == smp.head + delta_of(smp.offsets)

SourceCell(smp) == smp.head

(* C23, as claimed: after drain(offsets, add) finishes, the head rests on  *)
(* the last target cell visited, the source cell displaced by the net of   *)
(* the offsets.                                                            *)
C23_Claimed == DrainLeavesHead(LastVisited)

(* C23, amended: after drain(offsets, add) finishes, the head rests on the *)
(* source cell, whatever the offsets and the drained value.                *)
C23_HeadOnSource == DrainLeavesHead(SourceCell)

\* 2 was drained off cell 2 onto cells 0 and 4, and the head is on cell 2.
C23_Witness ==
    /\ pc = "done"
    /\ instructions = Buildable_build(DrainItem(
           [offsets |-> <<-2, 4>>, add |-> TRUE, v |-> 2, head |-> 2,
            cells |-> <<0, 0, 2, 0, 0>>]))
    /\ tape = <<2, 0, 0, 0, 2>>
    /\ tape_pointer = 2

\* The sample a zero_check program was made from.
IsZeroCheckRun ==
    \E smp \in ZeroCheckSamples :
       Buildable_build(ZeroCheckItem(smp)) = instructions

ZeroCheckOf ==
    CHOOSE smp \in ZeroCheckSamples :
       Buildable_build(ZeroCheckItem(smp)) = instructions

\* zero_check(offset) on cell c, the cell at the offset holding 0, ended at
\* the end of the program: `flag` is at the offset if c was 0 and 0 if not,
\* c is 0 and the head is on c.
ZeroChecked(flag) ==
    (Final /\ IsZeroCheckRun) =>
       LET smp == ZeroCheckOf IN
       /\ pc = "done"
       /\ tape[smp.head + smp.offset + 1] = IF smp.c = 0 THEN flag ELSE 0
       /\ tape[smp.head + 1] = 0
       /\ tape_pointer = smp.head

(* C24, as claimed: zero_check(offset), run with the head on cell c and    *)
(* the cell at head+offset 0, leaves 1 at head+offset if c was zero and 0  *)
(* if not, leaves c 0 and the head on c.                                   *)
C24_Claimed == ZeroChecked(1)

(* C24, amended: it leaves 255 at head+offset if c was zero and 0 if not,  *)
(* leaves c 0 and the head on c.                                           *)
C24_ZeroCheck == ZeroChecked(U8 - 1)

\* zero_check(-4) on a zero cell 4 has left 255 in cell 0.
C24_Witness ==
    /\ pc = "done"
    /\ IsZeroCheckRun
    /\ ZeroCheckOf.c = 0
    /\ ZeroCheckOf.offset = -4
    /\ tape = <<255, 5, 5, 5, 0, 5>>
    /\ tape_pointer = 4

\* The sample a find_non_zero_cell_right program was made from.
IsFindRun ==
    \E smp \in FindSamples : Buildable_build(FindItem(smp)) = instructions

FindOf ==
    CHOOSE smp \in FindSamples : Buildable_build(FindItem(smp)) = instructions

\* The nonzero cells right of the start cell.
NonZeroRight(smp) ==
    {c \in (smp.head + 1)..(Len(smp.cells) - 1) : smp.cells[c + 1] # 0}

Nearest(cs) == CHOOSE c \in cs : \A d \in cs : c <= d

\* The start cell and its left neighbour are zero and a cell to the right
\* is not.
Findable(smp) ==
    /\ smp.head >= 1
    /\ smp.cells[smp.head + 1] = 0
    /\ smp.cells[smp.head] = 0
    /\ NonZeroRight(smp) # {}

C25_State ==
    (Final /\ IsFindRun) =>
       LET smp == FindOf IN
       Findable(smp) =>
          /\ pc = "done"
          /\ tape_pointer = Nearest(NonZeroRight(smp))
          /\ tape = smp.cells

(* C25: find_non_zero_cell_right, started on a zero cell whose left        *)
(* neighbour is zero and with a nonzero cell to the right, terminates with *)
(* the head on the nearest nonzero cell right of the start and every cell  *)
(* holding what it held before.                                            *)
C25_FindNonZero ==
    /\ []C25_State
    /\ (pc = "new" /\ IsFindRun /\ Findable(FindOf)) ~> (pc = "done")

\* From cell 2 the scan went over two zero cells and stopped on the 255 in
\* cell 5; the 7 further right was not reached.
C25_Witness ==
    /\ pc = "done"
    /\ instructions = Buildable_build(FindItem(
           [head |-> 2, cells |-> <<3, 0, 0, 0, 0, 255, 0, 7>>]))
    /\ tape = <<3, 0, 0, 0, 0, 255, 0, 7>>
    /\ tape_pointer = 5

\* The sample a display_decimal program was made from.
IsDisplayRun ==
    \E smp \in DisplaySamples :
       Buildable_build(DisplayItem(smp)) = instructions

DisplayOf ==
    CHOOSE smp \in DisplaySamples :
       Buildable_build(DisplayItem(smp)) = instructions

\* The digits of the number of a sample, most significant first.
DisplayDigits(smp) == SubSeq(smp.cells, smp.head + 1, smp.head + smp.width)

\* The digits from the first nonzero one on.
RECURSIVE Significant(_)
Significant(ds) ==
    IF ds = <<>> \/ Head(ds) # 0 THEN ds ELSE Significant(Tail(ds))

\* The bytes of the characters of a sequence of digits.
Characters(ds) == [k \in DOMAIN ds |-> Byte(48 + ds[k])]

(* C26: display_decimal(width, gap), called with the head on the most      *)
(* significant cell of a number of `width` digits with a nonzero digit,    *)
(* the cells before and after it zero, writes the bytes 48 + d of the      *)
(* digits d from the first nonzero digit to the last, in order, and no     *)
(* other byte.                                                             *)
C26_Claimed ==
    (pc = "done" /\ IsDisplayRun) =>
       LET smp == DisplayOf IN
       Significant(DisplayDigits(smp)) # <<>> =>
          Written(stdout) = Characters(Significant(DisplayDigits(smp)))

\* The cell at an index of the tape; a cell the tape has not reached is 0.
CellAt(c) == IF c < Len(tape) THEN tape[c + 1] ELSE 0

\* display_decimal has completed: the head is on the cell it started on
\* and the digits are in the `width` cells that start `shift` cells right
\* of it; the cells they were in hold 0 if they have moved.
DisplayKeeps(shift(_)) ==
    (pc = "done" /\ IsDisplayRun) =>
       LET smp == DisplayOf IN
       /\ tape_pointer = smp.head
       /\ \A k \in 1..smp.width :
             /\ CellAt(smp.head + shift(smp) + k - 1) = DisplayDigits(smp)[k]
             /\ shift(smp) # 0 => CellAt(smp.head + k - 1) = 0

InPlace(smp) == 0

\* The digits move past the flags and the sentinel of the output loop.
Displaced(smp) == 2 * smp.width + 1 + smp.extra_gap

(* C27, as claimed: after display_decimal completes, the `width` digit     *)
(* cells starting at the cell the head was on hold the values they held    *)
(* before the call and the head is back on that cell.                      *)
C27_Claimed == DisplayKeeps(InPlace)

(* C27, amended: after display_decimal completes, the `width` cells that   *)
(* start 2 * width + 1 + gap cells right of the cell the head was on hold  *)
(* the values the digit cells held before the call, the digit cells hold   *)
(* 0, and the head is back on the cell it started on.                      *)
C27_DigitsKept == DisplayKeeps(Displaced)

\* display_decimal(2, 1) has written 42: the digits are in cells 7 and 8
\* and the head is on cell 1.
C27_Witness ==
    /\ pc = "done"
    /\ instructions = Buildable_build(DisplayItem(
           [width |-> 2, extra_gap |-> 1, head |-> 1, cells |-> <<0, 4, 2>>]))
    /\ tape = <<0, 0, 0, 0, 0, 0, 0, 4, 2, 0>>
    /\ tape_pointer = 1

\* The sample a divide program was made from.
IsDivideRun ==
    \E smp \in DivideSamples : Buildable_build(DivideItem(smp)) = instructions

DivideOf ==
    CHOOSE smp \in DivideSamples : Buildable_build(DivideItem(smp)) = instructions

FieldsOf(smp) == Fields(Len(smp.ns), Len(smp.ds))

\* The `width` cells that end at the index `last`, as the tape has them.
FieldNow(last, width) == [k \in 1..width |-> CellAt(last - width + k)]

Quotient(smp) == ValueOf(smp.ns) \div ValueOf(smp.ds)
Remainder(smp) == ValueOf(smp.ns) % ValueOf(smp.ds)

\* divide has finished: the digits of the quotient are in the cells that
\* end at `last`, and the head is on cell 0.
Divided(last(_)) ==
    (pc = "done" /\ IsDivideRun) =>
       LET smp == DivideOf
           f == FieldsOf(smp)
       IN  /\ FieldNow(last(f), f.QW) = DigitsOf(Quotient(smp), f.QW)
           /\ last(f) # f.Q => FieldNow(f.Q, f.QW) = DigitsOf(0, f.QW)
           /\ tape_pointer = 0

\* divide on a divisor that is not 0 comes to an end: run returns.
DivideEnds ==
    (pc = "new" /\ IsDivideRun /\ ValueOf(DivideOf.ds) >= 1)
       ~> (pc \in {"done", "io_error"})

FieldQ(f) == f.Q

\* Where display_decimal(QW, 0) leaves the number it was called on.
RightOfQ(f) == f.Q + 2 * f.QW + 1

DividendLeft(left(_)) ==
    (pc = "done" /\ IsDivideRun) =>
       LET smp == DivideOf
           f == FieldsOf(smp)
       IN  /\ FieldNow(f.N, f.NW) = left(smp)
           /\ FieldNow(f.D, f.DW)
                 = DigitsOf(ValueOf(smp.ds) - Remainder(smp), f.DW)
           /\ Decode(FieldNow(f.T, f.TW), 246) = DigitsOf(Remainder(smp), f.TW)

AsGiven(smp) == smp.ns

AllZero(smp) == [k \in 1..Len(smp.ns) |-> 0]

(* C29, as claimed: when divide finishes, the dividend field N holds the   *)
(* digits it held when divide started.                                     *)
C29_Claimed == DividendLeft(AsGiven)

(* C29, amended: when divide finishes, the dividend field N holds 0 in     *)
(* every cell; what T gives back is the divisor, each time it has been     *)
(* counted down to zero: D ends as the divisor less the remainder and T    *)
(* holds the remainder in bytes 246 + d.                                   *)
C29_DividendConsumed == DividendLeft(AllZero)

\* 3 was divided by 2: N is 0, D is 1 and T is 247, the remainder 1.
C29_Witness ==
    /\ pc = "done"
    /\ IsDivideRun
    /\ DivideOf = [ns |-> <<3>>, ds |-> <<2>>]
    /\ FieldNow(3, 1) = <<0>>
    /\ FieldNow(5, 1) = <<1>>
    /\ FieldNow(7, 1) = <<247>>

----------------------------------------------------------------------------
(* The interpreter and the linker together. *)

\* The action the loop is at is a bracket.
AtBracket ==
    /\ Dispatching
    /\ IsStart(instruction_pointer) \/ IsEnd(instruction_pointer)

C30_State ==
    /\ pc = "new" =>
          /\ Program_build(instructions).ok
          /\ pairs = Program_build(instructions).pairs
    /\ Constructed => instruction_pointer \in 0..Len(instructions)
    /\ AtBracket => pairs_get(pairs, instruction_pointer) # None
    /\ pc = "done" => instruction_pointer = Len(instructions)

C30_Step ==
    /\ Constructed => UNCHANGED <<instructions, pairs>>
    /\ (pc = "running" /\ instruction_pointer = Len(instructions)) => pc' = "done"
    /\ (pc = "running" /\ pc' = "done") => instruction_pointer = Len(instructions)

(* C30: the interpreter never runs an unlinked program: an Interpreter is  *)
(* made only of a program Program::build accepted, with the pairs it       *)
(* computed, and keeps it; the action index stays in 0..len; a Start or    *)
(* End about to be dispatched has its partner in pairs; and run returns    *)
(* Ok exactly when the action index has reached len.                       *)
C30_NeverUnlinked == [][C30_Step]_vars /\ []C30_State

\* `+[>+[-]<-]` has run to the end: both loops were entered and left through
\* their `]`, and the action index is the length, 10.
C30_Witness ==
    /\ pc = "done"
    /\ text = <<"+", "[", ">", "+", "[", "-", "]", "<", "-", "]">>
    /\ instruction_pointer = 10
    /\ DOMAIN pairs = {1, 4, 6, 9}
    /\ tape = <<0, 0>>

----------------------------------------------------------------------------
(* The lowering of a Loop. *)

\* No bracket of the tree is a Direct item: they all come from Loop nodes.
BracketsFromLoops(tree) ==
    \A it \in SubItems(tree) :
       it.kind = "Direct" => it.ins \notin {"Start", "End"}

\* What a Loop lowers to, given what its body items lower to.
LoopParts(it, lower(_)) ==
    (IF it.change_indent THEN << <<Indent(TRUE)>> >> ELSE <<>>)
    \o << <<Instruction("Start")>> >>
    \o [k \in DOMAIN it.body |-> lower(it.body[k])]
    \o << <<Instruction("End")>> >>
    \o (IF it.change_indent THEN << <<Indent(FALSE)>> >> ELSE <<>>)

(* C31: the lowering of a Loop is Indent(+1) if the flag is set,           *)
(* Instruction(Start), the lowerings of the body items in order,           *)
(* Instruction(End) and Indent(-1) if the flag is set, and nothing else;   *)
(* the lowering of a tree whose brackets all come from Loop nodes is       *)
(* balanced, and Program::build never rejects it.                          *)
C31_LoopLowering ==
    /\ (pc = "lowered" /\ item # NoItem) =>
          /\ \A it \in SubItems(item) :
                LET lower(x) == IF x = item THEN instructions ELSE Buildable_build(x)
                IN  it.kind = "Loop" => IsConcat(lower(it), LoopParts(it, lower))
          /\ BracketsFromLoops(item) => Balanced
    /\ (pc = "link_error" /\ item # NoItem) => ~BracketsFromLoops(item)

\* A tree with an indenting Loop around a plain Loop has been lowered to
\* Comment + Indent [ Comment . [ - ] ] Indent, and linked.
C31_Witness ==
    /\ pc = "linked"
    /\ item # NoItem
    /\ BracketsFromLoops(item)
    /\ \E it \in SubItems(item) :
          /\ it.kind = "Loop" /\ it.change_indent
          /\ \E k \in DOMAIN it.body :
                it.body[k].kind = "Loop" /\ ~it.body[k].change_indent
    /\ Len(instructions) = 11
    /\ instructions[3] = Indent(TRUE)
    /\ instructions[11] = Indent(FALSE)
    /\ DOMAIN pairs = {3, 6, 8, 9}

----------------------------------------------------------------------------
(* Comment and Indent at run time. *)

\* What C32 says of a step.
C32_Step ==
    /\ (AtKind("Comment") \/ AtKind("Indent")) =>
          /\ Continues
          /\ instruction_pointer' = instruction_pointer + 1
          /\ UNCHANGED <<tape, tape_pointer, markers, inpos, built>>
          /\ Written(stdout') = Written(stdout)
    /\ AtKind("Indent") => stdout' = stdout
    /\ AtKind("Comment") =>
          IF printing_level # None /\ Current.level >= printing_level
          THEN stdout' = Append(stdout, Line(Current.text))
          ELSE stdout' = stdout

(* C32: dispatching a Comment or an Indent leaves the tape, the head, the  *)
(* marker map, the input position and the bytes written by Output as they  *)
(* were and moves the action index on by one; an Indent writes nothing,    *)
(* and a Comment writes its line exactly when a print level is set and the *)
(* comment's level is at least that level.                                 *)
C32_CommentsAndIndents == [][C32_Step]_vars

\* With the print level 160 set, Comment("start", 200) + Indent [ Comment(
\* "body", 100) . [-] ] Indent has run: the first comment was printed, the
\* second was not, and the Output byte follows the line.
C32_Witness ==
    /\ pc = "done"
    /\ printing_level = 160
    /\ Len(instructions) = 11
    /\ instructions[1] = Comment("start", 200)
    /\ instructions[5] = Comment("body", 100)
    /\ instructions[3] = Indent(TRUE)
    /\ stdout = <<Line("start"), Byte(1)>>

----------------------------------------------------------------------------
(* One level of the numeric recursion. *)

IsMove(a) == IsInstruction(a, "Left") \/ IsInstruction(a, "Right")

\* The `[` at i opens the else loop of a zero check: after the moves that
\* follow it comes the assertion "before recursion", or the depth guard.
ElseStart(i) ==
    /\ IsStart(i)
    /\ \E j \in (i + 1)..(Len(instructions) - 1) :
          /\ \A k \in (i + 1)..(j - 1) : IsMove(instructions[k + 1])
          /\ LET a == instructions[j + 1] IN
             \/ a.kind = "AssertRelative" /\ a.comment = "before recursion"
             \/ a = AssertPosition(USIZE_MAX, "arithmetic overflow")

\* The `]` at j closes one.
ElseEnd(j) == IsEnd(j) /\ ElseStart(pairs_get(pairs, j))

\* The index i is in the test of a zero check: between the assertion before
\* the check and the `[` of its else loop.
InTest(i) ==
    \E s \in i..(Len(instructions) - 1) :
       /\ ElseStart(s)
       /\ \A k \in i..(s - 1) : instructions[k + 1].kind \in {"Instruction", "Indent"}

\* The markers of the levels that are running, and the digit of the
\* innermost of them.
LevelMarkers(smp) ==
    { level_marker_name(smp.ops[k], space) :
         k \in DOMAIN smp.ops, space \in 0..(Width(smp) - 1) }
RunningLevels(smp) == LevelMarkers(smp) \cap DOMAIN markers
LevelDigit(smp) ==
    LET lowest == CHOOSE c \in {markers[m] : m \in RunningLevels(smp)} :
                     \A m \in RunningLevels(smp) : c <= markers[m]
    IN  lowest

\* The first scratch cell of a sample.
Scratch(smp) == smp.head + smp.scratch_offset

\* What C33 says of a step of a numeric program on a tape laid out as the
\* macros require.
C33_Level(smp) ==
    /\ (At("Start") /\ ElseStart(instruction_pointer)) =>
          LET d == LevelDigit(smp) IN
          IF tape[d + 1] # 0
          THEN /\ tape[Scratch(smp) + 1] = 0
               /\ Cell = 0
               /\ instruction_pointer' = pairs[instruction_pointer] + 1
          ELSE /\ tape_pointer = Scratch(smp)
               /\ Cell = 1
               /\ instruction_pointer' = instruction_pointer + 1
    /\ (At("End") /\ ElseEnd(instruction_pointer)) =>
          /\ Cell = 0
          /\ instruction_pointer' = instruction_pointer + 1
    /\ ((At("Inc") \/ At("Dec")) /\ InTest(instruction_pointer)) =>
          tape_pointer # LevelDigit(smp)
    /\ (AtKind("AssertRelative") /\ Current.comment = "after zero check") =>
          /\ Continues
          /\ tape_pointer = LevelDigit(smp)
          /\ Current.name \in RunningLevels(smp)
          /\ markers[Current.name] = LevelDigit(smp)

C33_Step ==
    (pc = "running" /\ item \in NumericItems) =>
       LET smp == SampleOf[item] IN WellLaidOut(smp) => C33_Level(smp)

(* C33: within one level of operate_level, on a tape laid out as the       *)
(* macros require: when the digit is nonzero the test leaves the scratch   *)
(* cell 0 and the else loop is skipped, so the next level is not entered;  *)
(* when the digit is zero the else loop is entered on the scratch cell     *)
(* holding 1 and its `]` is passed the first time it is reached, so the    *)
(* body runs once; the test never increments or decrements the digit; and  *)
(* the assertion "after zero check" finds the head on the level's digit.   *)
C33_OneLevel == [][C33_Step]_vars

\* DecimalAdd<2> on the bytes 246, 255: the low digit rolled over to 0, the
\* else body carried into the high digit and reset the low one, and the
\* first level is about to pass "after zero check" on its digit.
C33_Witness ==
    /\ pc = "running"
    /\ item = NumericItem(ScratchRight(<<DecimalAdd(2)>>, <<246, 255>>))
    /\ Current = AssertRelative("operation decimal add level 1", 0,
                                "after zero check")
    /\ tape = <<247, 246, 0, 0>>
    /\ tape_pointer = 1

----------------------------------------------------------------------------
(* The byte counters. *)

\* The number of a sequence of base-256 digits, most significant first.
RECURSIVE ValueOfBytes(_)
ValueOfBytes(ds) ==
    IF ds = <<>> THEN 0
    ELSE U8 * ValueOfBytes(SubSeq(ds, 1, Len(ds) - 1)) + ds[Len(ds)]

\* A run of the one operation N<W> on a tape laid out for it has ended.
RanOnly(smp, N) ==
    /\ smp.ops = <<N>>
    /\ WellLaidOut(smp)

\* The digits more significant than the least significant digit that is not
\* `rolling` are as they were.
UpperDigitsKept(smp, rolling) ==
    \A k \in 1..Width(smp) :
       (\E j \in (k + 1)..Width(smp) : StoredCells(smp)[j] # rolling) =>
          DigitCellsNow(smp)[k] = StoredCells(smp)[k]

(* C34: operate::<ByteAdd<W>> replaces the base-256 value v of the W digit *)
(* cells, most significant first, by v + 1 for every v < 256^W - 1 and     *)
(* ends with the head where it was: a digit that was 255 becomes 0 and     *)
(* carries into the next more significant digit, and the digits above the  *)
(* first digit that was not 255 are unchanged.                             *)
C34_ByteIncrement ==
    NumericRunEnded =>
       LET smp == SampleOf[item]
           v == ValueOfBytes(StoredCells(smp))
       IN  (RanOnly(smp, ByteAdd(Width(smp))) /\ v < U8 ^ Width(smp) - 1) =>
              /\ pc = "done"
              /\ tape_pointer = smp.head
              /\ ValueOfBytes(DigitCellsNow(smp)) = v + 1
              /\ UpperDigitsKept(smp, U8 - 1)

\* ByteAdd<3> on 0, 255, 255 has carried twice: the cells hold 1, 0, 0.
C34_Witness ==
    /\ pc = "done"
    /\ item = NumericItem(ScratchRight(<<ByteAdd(3)>>, <<0, 255, 255>>))
    /\ tape = <<1, 0, 0, 0, 0>>
    /\ tape_pointer = 2

(* C35: operate::<ByteSub<W>> replaces the base-256 value v of the W digit *)
(* cells by v - 1 for every v >= 1 and ends with the head where it was: a  *)
(* digit that is 0 borrows from the next more significant digit and        *)
(* becomes 255, and the digits above the first nonzero digit are           *)
(* unchanged; on v = 0 the run ends on the assertion "arithmetic           *)
(* overflow".                                                              *)
C35_ByteDecrement ==
    NumericRunEnded =>
       LET smp == SampleOf[item]
           v == ValueOfBytes(StoredCells(smp))
       IN  RanOnly(smp, ByteSub(Width(smp))) =>
              IF v = 0
              THEN /\ GuardFailed
                   /\ error = assert_eq_message(tape_pointer, USIZE_MAX,
                                                "arithmetic overflow")
              ELSE /\ pc = "done"
                   /\ tape_pointer = smp.head
                   /\ ValueOfBytes(DigitCellsNow(smp)) = v - 1
                   /\ UpperDigitsKept(smp, 0)

\* ByteSub<3> on 255, 0, 0 has borrowed twice: the cells hold 254, 255, 255.
C35_Witness ==
    /\ pc = "done"
    /\ item = NumericItem(ScratchRight(<<ByteSub(3)>>, <<255, 0, 0>>))
    /\ tape = <<254, 255, 255, 0, 0>>
    /\ tape_pointer = 2

(* C36: operate::<DecimalSub<W>> on W cells each holding a digit 0..9,     *)
(* most significant first, that stand for v >= 1 leaves cells standing for *)
(* v - 1, each again in 0..9, and the head where it was: a digit that is 0 *)
(* borrows from the next more significant digit and becomes 9, and the     *)
(* digits above the first nonzero digit are unchanged.                     *)
C36_DecimalDecrement ==
    NumericRunEnded =>
       LET smp == SampleOf[item]
           v == ValueOf(StoredCells(smp))
       IN  ( /\ RanOnly(smp, DecimalSub(Width(smp)))
             /\ IsNumber(StoredCells(smp), 0)
             /\ v >= 1 ) =>
              /\ pc = "done"
              /\ tape_pointer = smp.head
              /\ IsNumber(DigitCellsNow(smp), 0)
              /\ DigitCellsNow(smp) = DigitsOf(v - 1, Width(smp))
              /\ UpperDigitsKept(smp, 0)

\* DecimalSub<3> on 1, 0, 0 has borrowed twice: the cells hold 0, 9, 9.
C36_Witness ==
    /\ pc = "done"
    /\ item = NumericItem(ScratchRight(<<DecimalSub(3)>>, <<1, 0, 0>>))
    /\ tape = <<0, 9, 9, 0, 0>>
    /\ tape_pointer = 2

----------------------------------------------------------------------------
(* The offsets of drain. *)

\* The program of each drain sample, and the sample of each such program.
DrainProgram == [smp \in DrainSamples |-> Buildable_build(DrainItem(smp))]
DrainSampleOf ==
    [p \in {DrainProgram[smp] : smp \in DrainSamples} |->
        CHOOSE smp \in DrainSamples : DrainProgram[smp] = p]

\* The sum of the first k offsets.
RECURSIVE Net(_, _)
Net(offsets, k) == IF k = 0 THEN 0 ELSE Net(offsets, k - 1) + offsets[k]

\* The cell of the k-th change if the offsets are taken from the source
\* cell, and if each is taken from the cell visited before it.
FromSource(smp, k) == smp.head + smp.offsets[k]
FromPrevious(smp, k) == smp.head + Net(smp.offsets, k)

\* The index of the `[` of drain, the one loop of the program, and of the
\* action that changes the k-th target: after the Dec of the source, each
\* offset is its moves and one change.
DrainLoop == CHOOSE s \in Indices : IsStart(s)
RECURSIVE MovesUpTo(_, _)
MovesUpTo(offsets, k) ==
    IF k = 0 THEN 0 ELSE MovesUpTo(offsets, k - 1) + unsigned_abs(offsets[k]) + 1
ChangeIndex(smp, k) == DrainLoop + 1 + MovesUpTo(smp.offsets, k)

\* Where the head is at each action of an iteration of drain.
DrainIteration(target(_, _)) ==
    (pc = "running" /\ instructions \in DOMAIN DrainSampleOf) =>
       LET smp == DrainSampleOf[instructions] IN
       /\ instruction_pointer = DrainLoop + 1 =>
             At("Dec") /\ tape_pointer = smp.head
       /\ \A k \in 1..Len(smp.offsets) :
             instruction_pointer = ChangeIndex(smp, k) =>
                /\ At(IF smp.add THEN "Inc" ELSE "Dec")
                /\ tape_pointer = target(smp, k)
       /\ instruction_pointer = pairs[DrainLoop] =>
             At("End") /\ tape_pointer = smp.head

(* C37, as claimed: in drain(offsets, add) every offset is measured from   *)
(* the source cell: each iteration decrements the source and, for each     *)
(* offset k, changes the cell at source + offset_k by one, the head being  *)
(* back on the source at the end of the iteration.                         *)
C37_Claimed == DrainIteration(FromSource)

(* C37, amended: in drain(offsets, add) every offset is measured from the  *)
(* cell changed before it, the first from the source cell: each iteration  *)
(* decrements the source and, for each offset k, changes the cell at       *)
(* source + offset_1 + ... + offset_k by one; the head returns to the      *)
(* source once, at the end of the iteration.                               *)
C37_OffsetsChained == DrainIteration(FromPrevious)

\* drain(&[-2, 4], true) from cell 2 holding 2: in the first iteration the
\* source and cell 0 are done and the second change is due, on cell 4.
C37_Witness ==
    /\ pc = "running"
    /\ instructions \in DOMAIN DrainSampleOf
    /\ DrainSampleOf[instructions].offsets = <<-2, 4>>
    /\ instruction_pointer = ChangeIndex(DrainSampleOf[instructions], 2)
    /\ tape = <<1, 0, 1, 0, 0>>
    /\ tape_pointer = 4

----------------------------------------------------------------------------
(* What operate leaves around the number. *)

\* The marker map before the operations of a sample: the marker the program
\* placed, on cell 0, if any.
MarkersBefore(smp) ==
    IF "marker" \in DOMAIN smp THEN (smp.marker :> 0) ELSE NoMarkers

(* C38: when operate has completed (any of the four operations, widths 1   *)
(* to 3, the tape laid out as the macros require, whatever the scratch     *)
(* cells held), both scratch cells hold 0, every cell that is neither a    *)
(* digit cell nor a scratch cell holds what it held before, and the marker *)
(* map is the map before the call.                                         *)
C38_Frame ==
    (NumericRunEnded /\ pc = "done") =>
       LET smp == SampleOf[item] IN
       WellLaidOut(smp) =>
          /\ \A c \in ScratchIndices(smp) : tape[c + 1] = 0
          /\ \A c \in 0..(Len(tape) - 1) :
                c \notin (ScratchIndices(smp) \cup DigitIndices(smp)) =>
                   tape[c + 1] = Written0(smp, c)
          /\ Len(tape) >= Len(smp.cells)
          /\ markers = MarkersBefore(smp)

\* ByteAdd<2> has carried on 9, 255 between the cells 7, 3 and 5: the scratch
\* cells, 2 and 1 before, hold 0 and the marker placed before is the only one.
C38_Witness ==
    /\ pc = "done"
    /\ item \in NumericItems
    /\ SampleOf[item].ops = <<ByteAdd(2)>>
    /\ tape = <<7, 3, 10, 0, 0, 0, 0, 5>>
    /\ markers = ("packet" :> 0)

----------------------------------------------------------------------------
(* The list of addresses. *)

\* The program of each sample of append_to_list, and the sample of each
\* such program.
AppendProgram == [smp \in AppendSamples |-> Buildable_build(AppendItem(smp))]
AppendSampleOf ==
    [p \in {AppendProgram[smp] : smp \in AppendSamples} |->
        CHOOSE smp \in AppendSamples : AppendProgram[smp] = p]

\* The cell `field` of the k-th entry of the list on the tape.
EntryCell(k, field) ==
    CellAt(Positions.LIST_START + (k - 1) * ListEntry.WIDTH + field)

\* The four DATA cells of the k-th entry on the tape.
EntryData(k) == [j \in 1..4 |-> EntryCell(k, ListEntry.DATA_START + j - 1)]

\* The entries of the sample that hold the address.
Matching(smp) ==
    {k \in 1..Len(smp.entries) : smp.entries[k].data = smp.address}

\* The entry whose COUNT append_to_list increases: the first that holds the
\* address.
Matched(smp) == CHOOSE k \in Matching(smp) : \A j \in Matching(smp) : k <= j

\* The k-th entry is on the tape with the DATA the sample gave it and its
\* COUNT increased by `more`.
EntryKept(smp, k, more) ==
    /\ EntryCell(k, ListEntry.EXIST_FLAG) = 1
    /\ EntryCell(k, ListEntry.COUNT) = (smp.entries[k].count + more) % U8
    /\ EntryData(k) = smp.entries[k].data

\* C39: append_to_list run with the head on PACKET_IP_DEST_START, the
\* address in the four cells from there, zeros from LIST_HEADSTOP to
\* LIST_START, a list of entries with EXIST_FLAG 1 and zero MARKED_FLAG and
\* SCRATCH, and zeros after it, ends with the head on LIST_HEADSTOP + 2.
\* If an entry holds the address, the COUNT of the first such entry is
\* increased by one (modulo 256) and the list has as many entries as before;
\* otherwise an entry with EXIST_FLAG 1, COUNT 1 and the address is added at
\* the end. DATA and COUNT of every other entry are as before.
C39_AppendToList ==
    Final =>
       LET smp == AppendSampleOf[instructions]
           n == Len(smp.entries)
       IN  /\ pc = "done"
           /\ tape_pointer = Positions.LIST_HEADSTOP + 2
           /\ IF Matching(smp) # {}
              THEN /\ \A k \in 1..n :
                         EntryKept(smp, k, IF k = Matched(smp) THEN 1 ELSE 0)
                   /\ EntryCell(n + 1, ListEntry.EXIST_FLAG) = 0
              ELSE /\ \A k \in 1..n : EntryKept(smp, k, 0)
                   /\ EntryCell(n + 1, ListEntry.EXIST_FLAG) = 1
                   /\ EntryCell(n + 1, ListEntry.COUNT) = 1
                   /\ EntryData(n + 1) = smp.address
                   /\ EntryCell(n + 2, ListEntry.EXIST_FLAG) = 0

\* The address 1.0.0.0 has been looked up in the list of 2.0.0.0, seen 3
\* times, and 1.0.0.0, seen 7 times: the second COUNT is 8 and no entry was
\* added.
C39_Witness ==
    /\ pc = "done"
    /\ instructions \in DOMAIN AppendSampleOf
    /\ AppendSampleOf[instructions] =
          [address |-> <<1, 0, 0, 0>>,
           entries |-> <<Entry(3, <<2, 0, 0, 0>>), Entry(7, <<1, 0, 0, 0>>)>>]
    /\ tape_pointer = Positions.LIST_HEADSTOP + 2
    /\ EntryCell(1, ListEntry.COUNT) = 3
    /\ EntryData(1) = <<2, 0, 0, 0>>
    /\ EntryCell(2, ListEntry.COUNT) = 8
    /\ EntryData(2) = <<1, 0, 0, 0>>
    /\ EntryCell(3, ListEntry.EXIST_FLAG) = 0

----------------------------------------------------------------------------
(* The end of the input in the packet loop. *)

\* The loop of read_packet_loop and the indices of its Start and End in the
\* client's program.
PacketLoop == read_packet_loop.items[2]
PacketLoopStartIndex ==
    Len(CaptureProgram) - Len(Buildable_build(PacketLoop)) + 1
PacketLoopEndIndex == Len(CaptureProgram) - 2

IsCaptureRun == instructions = CaptureProgram
IsBeforeCheckRun == instructions = BeforeCheckProgram

\* packet_loop_before_check has just completed.
Checked ==
    \/ /\ IsCaptureRun
       /\ pc = "running"
       /\ instruction_pointer \in {PacketLoopStartIndex, PacketLoopEndIndex}
    \/ /\ IsBeforeCheckRun
       /\ pc \in {"running", "done"}
       /\ instruction_pointer = Len(instructions)

\* What the k-th Input of the run has read: the k-th byte of the input, or 0
\* past its end.
ByteRead(k) == IF k <= Len(input) THEN input[k] ELSE 0

\* The four bytes read last: the length field of the record header.
LengthRead == [k \in 1..4 |-> ByteRead(executed - 4 + k)]

\* The capture the client's program is reading.
CaptureOf == CHOOSE smp \in CaptureSamples : CaptureBytes(smp) = input

\* A capture as the client assumes it: a header, whole records, no length
\* of zero.
WholeCapture(smp) ==
    /\ smp.header = CaptureHeader
    /\ smp.cut = 0
    /\ \A k \in 1..Len(smp.records) : smp.records[k].length # <<0, 0, 0, 0>>

\* The number of Inputs run when the header of the record after the first k
\* records has been read.
InputsUpTo(smp, k) ==
    Len(smp.header) + Len(RecordBytes(smp.records, k)) + 16

\* The packet counter as a number: its last digit, kept as 246 + d.
PacketsCounted == CellAt(Positions.NO_PACKETS) - 246

\* After packet_loop_before_check the head is on PACKET_LOOP_START, and the
\* cell is zero exactly if the four bytes of the length read as zero.
C40_ZeroAtEnd ==
    Checked =>
       /\ tape_pointer = Positions.PACKET_LOOP_START
       /\ (Cell = 0) <=> (LengthRead = <<0, 0, 0, 0>>)

\* On a capture as the client assumes it, each check comes after as many
\* runs of the body as records were read before it, and finds zero exactly
\* when no record is left.
C40_OncePerRecord ==
    (Checked /\ IsCaptureRun /\ WholeCapture(CaptureOf)) =>
       LET smp == CaptureOf IN
       \E k \in 0..Len(smp.records) :
          /\ executed = InputsUpTo(smp, k)
          /\ PacketsCounted = k
          /\ (Cell = 0) <=> (k = Len(smp.records))

\* The run has ended; on a capture as the client assumes it the loop was
\* left after the last record, with every record counted.
C40_Ended ==
    /\ Final
    /\ (IsCaptureRun /\ WholeCapture(CaptureOf)) =>
          /\ pc = "done"
          /\ executed = InputsUpTo(CaptureOf, Len(CaptureOf.records))
          /\ PacketsCounted = Len(CaptureOf.records)
          /\ tape_pointer = Positions.PACKET_LOOP_START

\* C40: after packet_loop_before_check the head is on PACKET_LOOP_START and
\* that cell is zero if and only if all four bytes of the record's length
\* read as zero, as they do once the input is exhausted; the body of the
\* packet loop runs once per record with a nonzero length, and the loop is
\* left at the end of the input: the run ends.
C40_EndOfInput ==
    /\ [](C40_ZeroAtEnd /\ C40_OncePerRecord)
    /\ <>C40_Ended

\* packet_loop_before_check has read the header of a record of 34 bytes and
\* left 1 in PACKET_LOOP_START, with the head on it.
C40_Witness ==
    /\ IsBeforeCheckRun
    /\ pc = "done"
    /\ executed = 16
    /\ LengthRead = <<34, 0, 0, 0>>
    /\ tape_pointer = Positions.PACKET_LOOP_START
    /\ Cell = 1
    /\ CellAt(Positions.PACKET_LOOP_START + 4) = 0

====
